---- MODULE Spec2Model ----
(***************************************************************************)
(* Model of the sync engine of agent-skills-standard (cli/src/commands/    *)
(* sync.ts): SyncCommand.run, checkForUpdates, assembleFromRemote and      *)
(* writeToTargets, together with the constants table of supported agents.  *)
(*                                                                         *)
(* Strings are TLA+ strings; an optional JavaScript value (undefined or a  *)
(* value) is a sequence of length 0 or 1: None or Some(v).                 *)
(***************************************************************************)
EXTENDS Integers, Sequences, FiniteSets, TLC

(***************************************************************************)
(* Bounds of the model.                                                    *)
(***************************************************************************)
\* number of consecutive sync runs explored
MaxRuns == 2
\* number of requests or file-system calls of one behaviour that may fail
MaxFaults == 1

(***************************************************************************)
(* Optional values and JavaScript truthiness.                              *)
(***************************************************************************)
None == << >>
Some(v) == << v >>
IsSome(o) == Len(o) = 1
Get(o) == o[1]

\* truthiness of an optional string: undefined and '' are falsy
TruthyStr(o) == IsSome(o) /\ Get(o) # ""
\* truthiness of an optional array: only undefined is falsy, [] is truthy
TruthyArr(o) == IsSome(o)
\* `o || d` for an optional string
OrElseStr(o, d) == IF TruthyStr(o) THEN Get(o) ELSE d

(***************************************************************************)
(* String helpers (String.prototype.startsWith, split, replace).           *)
(***************************************************************************)
StartsWith(s, p) == Len(p) <= Len(s) /\ SubSeq(s, 1, Len(p)) = p
CharAt(s, i) == SubSeq(s, i, i)
DropFirst(s, n) == SubSeq(s, n + 1, Len(s))

Min(S) == CHOOSE x \in S : \A y \in S : x <= y
\* the k-th smallest element of a set of numbers
Nth(S, k) == CHOOSE x \in S : Cardinality({ y \in S : y <= x }) = k

\* index of the first occurrence of the one-character string c in s at or
\* after position i, 0 when there is none
IndexOfChar(s, c, i) ==
    LET hits == { j \in i..Len(s) : CharAt(s, j) = c }
    IN  IF hits = {} THEN 0 ELSE Min(hits)

\* s.split('/'): the parts between consecutive slashes
SplitSlash(s) ==
    LET slashes == { j \in 1..Len(s) : CharAt(s, j) = "/" }
        n       == Cardinality(slashes)
    IN  [ k \in 1..(n + 1) |->
            SubSeq(s, IF k = 1 THEN 1 ELSE Nth(slashes, k - 1) + 1,
                      IF k = n + 1 THEN Len(s) ELSE Nth(slashes, k) - 1) ]

\* s.replace(/\\/g, '/'): every backslash of s becomes a slash
ReplaceBackslashes[s \in STRING] ==
    LET k == IndexOfChar(s, "\\", 1)
    IN  IF k = 0 THEN s
        ELSE SubSeq(s, 1, k - 1) \o "/" \o ReplaceBackslashes[DropFirst(s, k)]

BackslashToSlash(s) == ReplaceBackslashes[s]

\* s.replace(/\/$/, ''): one trailing slash stripped
StripTrailingSlash(s) ==
    IF Len(s) > 0 /\ CharAt(s, Len(s)) = "/" THEN SubSeq(s, 1, Len(s) - 1)
    ELSE s

\* s.replace(prefix, '') for a string that starts with prefix
RemovePrefix(s, p) == DropFirst(s, Len(p))

\* elements of a sequence
Range(q) == { q[i] : i \in 1..Len(q) }
\* Array.prototype.includes
Includes(q, x) == x \in Range(q)


(***************************************************************************)
(* Program constants.                                                      *)
(***************************************************************************)
\* SUPPORTED_AGENTS = Object.values(Agent).map(getAgentDefinition): the id
\* and the base directory of every known tool, in enum order
SUPPORTED_AGENTS ==
    << [id |-> "cursor",      path |-> ".cursor/skills"],
       [id |-> "trae",        path |-> ".trae/skills"],
       [id |-> "claude",      path |-> ".claude/skills"],
       [id |-> "copilot",     path |-> ".github/skills"],
       [id |-> "antigravity", path |-> ".agent/skills"],
       [id |-> "openai",      path |-> ".codex/skills"],
       [id |-> "opencode",    path |-> ".opencode/skills"],
       [id |-> "gemini",      path |-> ".gemini/skills"],
       [id |-> "roo",         path |-> ".roo/skills"] >>

\* SUPPORTED_AGENTS.map((a) => a.id)
SupportedAgentIds == [ i \in 1..Len(SUPPORTED_AGENTS) |-> SUPPORTED_AGENTS[i].id ]

\* SUPPORTED_AGENTS.find((a) => a.id === agentId): None when there is none
FindAgent(agentId) ==
    LET hits == SelectSeq(SUPPORTED_AGENTS, LAMBDA a : a.id = agentId)
    IN  IF Len(hits) = 0 THEN None ELSE Some(hits[1])

\* SUPPORTED_FRAMEWORKS = Object.values(Framework).map(getFrameworkDefinition):
\* the id and the languages of every known framework, in enum order
SUPPORTED_FRAMEWORKS ==
    << [id |-> "flutter",      languages |-> << "dart" >>],
       [id |-> "nestjs",       languages |-> << "typescript", "javascript" >>],
       [id |-> "golang",       languages |-> << "go" >>],
       [id |-> "nextjs",       languages |-> << "typescript", "javascript" >>],
       [id |-> "react",        languages |-> << "typescript", "javascript" >>],
       [id |-> "react-native", languages |-> << "typescript", "javascript" >>],
       [id |-> "angular",      languages |-> << "typescript" >>] >>

\* SUPPORTED_FRAMEWORKS.find((f) => f.id === framework)
FindFramework(framework) ==
    LET hits == SelectSeq(SUPPORTED_FRAMEWORKS, LAMBDA f : f.id = framework)
    IN  IF Len(hits) = 0 THEN None ELSE Some(hits[1])

(***************************************************************************)
(* The registry locator: RegExp matching of config.registry.               *)
(***************************************************************************)
UpperAlpha == "ABCDEFGHIJKLMNOPQRSTUVWXYZ"
LowerAlpha == "abcdefghijklmnopqrstuvwxyz"

\* the lower-case letter of every upper-case letter
LowerOf ==
    [ u \in { CharAt(UpperAlpha, i) : i \in 1..26 } |->
        CharAt(LowerAlpha, IndexOfChar(UpperAlpha, u, 1)) ]

LowerChar(c) == IF c \in DOMAIN LowerOf THEN LowerOf[c] ELSE c

\* the lower-case literal lit occurs in s at position i, ignoring case
OccursIgnoreCase(s, i, lit) ==
    /\ i + Len(lit) - 1 <= Len(s)
    /\ \A j \in 1..Len(lit) : LowerChar(CharAt(s, i + j - 1)) = CharAt(lit, j)

\* length of the longest prefix of s made of characters outside stop
RunLength(s, stop) ==
    LET hits == { j \in 1..Len(s) : CharAt(s, j) \in stop }
    IN  IF hits = {} THEN Len(s) ELSE Min(hits) - 1

\* /github\.com\/([^/]+)\/(REPO+)/i tried at position i, where REPO is the
\* class of characters outside repoStop; a greedy [^/]+ stops at the first
\* slash, so no shorter owner can be followed by a slash
MatchGithubAt(s, repoStop, i) ==
    IF ~ OccursIgnoreCase(s, i, "github.com/") THEN None
    ELSE LET rest  == DropFirst(s, i + 10)
             ol    == RunLength(rest, {"/"})
             after == DropFirst(rest, ol + 1)
             rl    == RunLength(after, repoStop)
         IN  IF ol >= 1 /\ ol < Len(rest) /\ rl >= 1
             THEN Some([owner |-> SubSeq(rest, 1, ol), repo |-> SubSeq(after, 1, rl)])
             ELSE None

\* String.prototype.match: the match at the leftmost position that has one
MatchGithub(s, repoStop) ==
    LET at == { i \in 1..Len(s) : MatchGithubAt(s, repoStop, i) # None }
    IN  IF at = {} THEN None ELSE MatchGithubAt(s, repoStop, Min(at))

\* UpdateRegistryMatch taking owner and repo from the last two segments of
\* a locator on any host
UpdateRegistryMatch_AnyHost(registry) ==
    LET parts == SplitSlash(registry)
    IN  IF Len(parts) >= 2
        THEN Some([owner |-> parts[Len(parts) - 1], repo |-> parts[Len(parts)]])
        ELSE None

\* checkForUpdates: /github\.com\/([^/]+)\/([^/.]+)(?:\.git)?/i
UpdateRegistryMatch(registry) == MatchGithub(registry, {"/", "."})

\* AssembleRegistryMatch taking owner and repo from the last two segments of
\* any locator
AssembleRegistryMatch_LastSegments(registry) ==
    LET parts == SplitSlash(registry)
    IN  IF Len(parts) >= 2
        THEN Some([owner |-> parts[Len(parts) - 1], repo |-> parts[Len(parts)]])
        ELSE None

\* assembleFromRemote: /github\.com\/([^/]+)\/([^/]+)/i
AssembleRegistryMatch(registry) == MatchGithub(registry, {"/"})


(***************************************************************************)
(* assembleFromRemote: the pure part of discovery and filtering.           *)
(***************************************************************************)
\* Array.from(new Set(q)): distinct elements in first-seen order
Distinct(q) ==
    LET first == { i \in 1..Len(q) : \A j \in 1..(i - 1) : q[j] # q[i] }
    IN  [ k \in 1..Cardinality(first) |-> q[Nth(first, k)] ]

\* ThirdSegment taking the last part of the path (parts[parts.length - 1])
ThirdSegment_Last(path) ==
    LET parts == SplitSlash(path)
    IN  IF Len(parts) >= 3 THEN Some(parts[Len(parts)]) ELSE None

\* parts[2] of path.split('/'), undefined (None) when there is no such part
ThirdSegment(path) ==
    LET parts == SplitSlash(path)
    IN  IF Len(parts) >= 3 THEN Some(parts[3]) ELSE None

\* the skill folder names of a category found in a tree listing
SkillFolders(allFiles, category) ==
    LET inCat  == SelectSeq(allFiles,
                      LAMBDA f : StartsWith(f.path, "skills/" \o category \o "/"))
        thirds == [ i \in 1..Len(inCat) |-> ThirdSegment(inCat[i].path) ]
        truthy == SelectSeq(thirds, TruthyStr)
    IN  Distinct([ i \in 1..Len(truthy) |-> Get(truthy[i]) ])

\* PassesFilter with the exclude test reached only without an include list
PassesFilter_ElseExclude(categoryConfig, skillFolderName) ==
    IF TruthyArr(categoryConfig.include)
    THEN Includes(Get(categoryConfig.include), skillFolderName)
    ELSE ~ ( /\ TruthyArr(categoryConfig.exclude)
             /\ Includes(Get(categoryConfig.exclude), skillFolderName) )

\* the include / exclude filter: TRUE when the skill is processed
PassesFilter(categoryConfig, skillFolderName) ==
    /\ ~ ( /\ TruthyArr(categoryConfig.include)
           /\ ~ Includes(Get(categoryConfig.include), skillFolderName) )
    /\ ~ ( /\ TruthyArr(categoryConfig.exclude)
           /\ Includes(Get(categoryConfig.exclude), skillFolderName) )

SkillPrefix(category, skillFolderName) ==
    "skills/" \o category \o "/" \o skillFolderName \o "/"

\* allFiles.filter(f => f.path.startsWith(`skills/${category}/${skill}/`))
SkillSourceFiles(allFiles, category, skillFolderName) ==
    SelectSeq(allFiles,
        LAMBDA f : StartsWith(f.path, SkillPrefix(category, skillFolderName)))

\* isSupported taking a SKILL.md at any depth of the skill folder
isSupported_AnyDepth(relativePath) ==
    \/ relativePath = "SKILL.md"
    \/ ( Len(relativePath) > Len("/SKILL.md")
         /\ DropFirst(relativePath, Len(relativePath) - Len("/SKILL.md")) = "/SKILL.md" )
    \/ StartsWith(relativePath, "references/")
    \/ StartsWith(relativePath, "scripts/")
    \/ StartsWith(relativePath, "assets/")

\* relativePath === 'SKILL.md' || relativePath.startsWith('references/') ||
\* relativePath.startsWith('scripts/') || relativePath.startsWith('assets/')
isSupported(relativePath) ==
    \/ relativePath = "SKILL.md"
    \/ StartsWith(relativePath, "references/")
    \/ StartsWith(relativePath, "scripts/")
    \/ StartsWith(relativePath, "assets/")

\* the tree entry is fetched: isSupported && fileItem.type === 'blob'
IsFetched(fileItem, relativePath) ==
    isSupported(relativePath) /\ fileItem.type = "blob"

\* the relative paths of the files of one skill that are fetched, in order
FilesToFetch(allFiles, category, skillFolderName) ==
    LET src == SkillSourceFiles(allFiles, category, skillFolderName)
        rel == [ i \in 1..Len(src) |->
                   [item |-> src[i],
                    relativePath |-> RemovePrefix(src[i].path,
                                        SkillPrefix(category, skillFolderName))] ]
        sel == SelectSeq(rel, LAMBDA r : IsFetched(r.item, r.relativePath))
    IN  [ i \in 1..Len(sel) |-> sel[i].relativePath ]

\* the skill folders of a category in a tree listing, each with the files
\* that are fetched when the skill passes the filter
Discovered(allFiles, category) ==
    LET folders == SkillFolders(allFiles, category)
    IN  [ i \in 1..Len(folders) |->
            [skill |-> folders[i], todo |-> FilesToFetch(allFiles, category, folders[i])] ]

\* the loop over skillFolders up to the first fetch: the skills that pass the
\* filter, each with the files still to fetch
SkillWork(discovered, categoryConfig) ==
    SelectSeq(discovered, LAMBDA w : PassesFilter(categoryConfig, w.skill))

\* CollectSkill without the test on skillFiles.length
CollectSkill_NoGuard(collected, category, skillFolderName, skillFiles) ==
    Append(collected,
        [category |-> category, skill |-> skillFolderName, files |-> skillFiles])

\* if (skillFiles.length > 0) collected.push({category, skill, files})
CollectSkill(collected, category, skillFolderName, skillFiles) ==
    IF Len(skillFiles) > 0
    THEN Append(collected,
             [category |-> category, skill |-> skillFolderName, files |-> skillFiles])
    ELSE collected

(***************************************************************************)
(* writeToTargets: the file system and the override test.                  *)
(***************************************************************************)
\* path.join of a directory and a name (no '.' or '..' segments arise)
PathJoin(a, b) == a \o "/" \o b

\* the directories above a relative path: its prefixes that end before a slash
Ancestors(path) ==
    { SubSeq(path, 1, i - 1) : i \in { j \in 2..Len(path) : CharAt(path, j) = "/" } }

\* isOverridden with startsWith on the rule itself, without the slash
isOverridden_TextPrefix(relativePath, overrides) ==
    \E i \in 1..Len(overrides) :
        LET overridePath == BackslashToSlash(overrides[i])
        IN  \/ relativePath = overridePath
            \/ StartsWith(relativePath, StripTrailingSlash(overridePath))

\* isOverridden with the directory-prefix test left out
isOverridden_ExactOnly(relativePath, overrides) ==
    \E i \in 1..Len(overrides) : relativePath = BackslashToSlash(overrides[i])

\* overrides.some(...): the file is protected by a custom_overrides rule
isOverridden(relativePath, overrides) ==
    \E i \in 1..Len(overrides) :
        LET overridePath == BackslashToSlash(overrides[i])
        IN  \/ relativePath = overridePath
            \/ StartsWith(relativePath, StripTrailingSlash(overridePath) \o "/")

\* path.join(basePath, skill.category, skill.skill)
SkillPath(basePath, skill) == PathJoin(PathJoin(basePath, skill.category), skill.skill)

\* path.join(skillPath, fileItem.name)
TargetFilePath(basePath, skill, fileItem) ==
    PathJoin(SkillPath(basePath, skill), fileItem.name)

\* path.relative(process.cwd(), targetFilePath).replace(/\\/g, '/'): the
\* target path is built from a relative base directory
RelativePath(targetFilePath) == BackslashToSlash(targetFilePath)

\* KnownAgents with the loop left at the first unknown agent
KnownAgents_UntilUnknown(agents) ==
    { a \in 1..Len(agents) :
        \A b \in 1..a :
            FindAgent(agents[b]) # None /\ Get(FindAgent(agents[b])).path # "" }

\* the positions of the agents list that name a known agent with a path
KnownAgents(agents) ==
    { a \in 1..Len(agents) :
        FindAgent(agents[a]) # None /\ Get(FindAgent(agents[a])).path # "" }

BasePath(agentId) == Get(FindAgent(agentId)).path

\* the iterations of the loops over agents, skills and skill.files, each
\* with its targetFilePath and the content of its file
WriteIterations(agents, skills) ==
    UNION { UNION {
        { [agent |-> a, skill |-> k, file |-> f,
           path |-> TargetFilePath(BasePath(agents[a]), skills[k], skills[k].files[f]),
           content |-> skills[k].files[f].content] :
            f \in 1..Len(skills[k].files) } :
        k \in 1..Len(skills) } :
        a \in KnownAgents(agents) }

\* the iterations that reach fs.outputFile: the file is not overridden
WriteOps(agents, skills, overrides) ==
    { w \in WriteIterations(agents, skills) :
        ~ isOverridden(RelativePath(w.path), overrides) }

\* the iteration w comes after the iteration v
After(w, v) ==
    \/ w.agent > v.agent
    \/ w.agent = v.agent /\ w.skill > v.skill
    \/ w.agent = v.agent /\ w.skill = v.skill /\ w.file > v.file

\* the directories fs.ensureDir creates: the base directory of every known
\* agent and the directory of every collected skill under it
EnsuredDirs(agents, skills) ==
    LET bases == { BasePath(agents[a]) : a \in KnownAgents(agents) }
        made  == bases \cup { SkillPath(b, skills[k]) : b \in bases, k \in 1..Len(skills) }
    IN  made \cup UNION { Ancestors(d) : d \in made }

\* OutputFile leaving an existing file as it is (the flag 'wx')
OutputFile_KeepExisting(fsys, file, content) ==
    IF file \in DOMAIN fsys.files THEN fsys.files[file] ELSE content

\* OutputFile appending to an existing file (fs.appendFile)
OutputFile_Append(fsys, file, content) ==
    IF file \in DOMAIN fsys.files THEN fsys.files[file] \o content ELSE content

\* fs.outputFile(file, content): the content of the file afterwards
OutputFile(fsys, file, content) == content

\* WriteAll with fs.emptyDir in the place of fs.ensureDir: the base directory
\* of every known agent is cleared before it is written
WriteAll_EmptyDir(fsys, agents, skills, overrides) ==
    LET bases == { BasePath(agents[a]) : a \in KnownAgents(agents) }
        kept  == { p \in DOMAIN fsys.files : \A b \in bases : b \notin Ancestors(p) }
        last(ops, p) == CHOOSE w \in ops :
                       w.path = p /\ \A v \in ops : v.path = p => ~ After(v, w)
        written(ops, targets, ensured, left) ==
          [files |-> [ p \in left \cup targets |->
                       IF p \in targets THEN OutputFile(fsys, p, last(ops, p).content)
                       ELSE fsys.files[p] ],
           dirs  |-> fsys.dirs \cup ensured
                             \cup UNION { Ancestors(p) : p \in targets }]
    IN  CHOOSE next \in { written(ops, { w.path : w \in ops }, ensured, left) :
                             ops \in {WriteOps(agents, skills, overrides)},
                             ensured \in {EnsuredDirs(agents, skills)},
                             left \in {kept} } : TRUE

\* the loops of writeToTargets: every path takes the content of the last
\* fs.outputFile on it, every other file is left as it is; ops and ensured
\* are the iterations that write and the directories made on the way
WriteAll(fsys, agents, skills, overrides) ==
    LET last(ops, p) == CHOOSE w \in ops :
                       w.path = p /\ \A v \in ops : v.path = p => ~ After(v, w)
        written(ops, targets, ensured) ==
          [files |-> [ p \in (DOMAIN fsys.files) \cup targets |->
                       IF p \in targets THEN OutputFile(fsys, p, last(ops, p).content)
                       ELSE fsys.files[p] ],
           dirs  |-> fsys.dirs \cup ensured
                             \cup UNION { Ancestors(p) : p \in targets }]
    IN  CHOOSE next \in { written(ops, { w.path : w \in ops }, ensured) :
                             ops \in {WriteOps(agents, skills, overrides)},
                             ensured \in {EnsuredDirs(agents, skills)} } : TRUE

\* config.agents || SUPPORTED_AGENTS.map((a) => a.id)
TargetAgents(cfg) ==
    IF TruthyArr(cfg.agents) THEN Get(cfg.agents) ELSE SupportedAgentIds

\* config.custom_overrides || []
Overrides(cfg) ==
    IF TruthyArr(cfg.custom_overrides) THEN Get(cfg.custom_overrides) ELSE << >>

\* writeToTargets(skills, config)
WriteToTargets(fsys, skills, cfg) ==
    WriteAll(fsys, TargetAgents(cfg), skills, Overrides(cfg))


(***************************************************************************)
(* checkForUpdates: the pure part of the comparison.                       *)
(***************************************************************************)
\* the order of Object.entries(config.skills): the key order of the document
\* SUPPORTED_FRAMEWORKS.flatMap((f) => f.languages)
Languages[i \in 0..Len(SUPPORTED_FRAMEWORKS)] ==
    IF i = 0 THEN << >> ELSE Languages[i - 1] \o SUPPORTED_FRAMEWORKS[i].languages

\* [...new Set(allKnownCategories)]: the ids of the frameworks, then their
\* languages, each once
AllKnownCategories ==
    Distinct([ i \in 1..Len(SUPPORTED_FRAMEWORKS) |-> SUPPORTED_FRAMEWORKS[i].id ]
                \o Languages[Len(SUPPORTED_FRAMEWORKS)])

CategoryOrder == AllKnownCategories

\* Object.entries(config.skills).map(([key]) => key)
SkillKeys(cfg) == SelectSeq(CategoryOrder, LAMBDA c : c \in DOMAIN cfg.skills)

\* remoteMeta.categories?.[cat]
RemoteCategory(remoteMeta, cat) ==
    IF IsSome(remoteMeta.categories) /\ cat \in DOMAIN Get(remoteMeta.categories)
    THEN Some(Get(remoteMeta.categories)[cat])
    ELSE None

\* !(!remoteCat || !remoteCat.version || !remoteCat.tag_prefix)
HasLatestTag(remoteCat) ==
    /\ IsSome(remoteCat)
    /\ TruthyStr(Get(remoteCat).version)
    /\ TruthyStr(Get(remoteCat).tag_prefix)

LatestTag(remoteCat) == Get(Get(remoteCat).tag_prefix) \o Get(Get(remoteCat).version)

\* CurrentRef without the ref of the configuration
CurrentRef_Main(catConfig) == "main"

\* catConfig.ref || 'main'
CurrentRef(catConfig) == OrElseStr(catConfig.ref, "main")

\* UpdateFor without the test on catConfig.enabled
UpdateFor_IgnoreEnabled(cfg, remoteMeta, cat) ==
    LET catConfig == cfg.skills[cat]
        remoteCat == RemoteCategory(remoteMeta, cat)
    IN  IF ~ HasLatestTag(remoteCat) THEN << >>
        ELSE IF CurrentRef(catConfig) # LatestTag(remoteCat)
             THEN << [category |-> cat, from |-> CurrentRef(catConfig),
                      to |-> LatestTag(remoteCat)] >>
        ELSE << >>

\* the body of the loop over Object.entries(config.skills) for one category:
\* the update candidate of the category, or nothing
UpdateFor(cfg, remoteMeta, cat) ==
    LET catConfig == cfg.skills[cat]
        remoteCat == RemoteCategory(remoteMeta, cat)
    IN  IF ~ catConfig.enabled THEN << >>
        ELSE IF ~ HasLatestTag(remoteCat) THEN << >>
        ELSE IF CurrentRef(catConfig) # LatestTag(remoteCat)
             THEN << [category |-> cat, from |-> CurrentRef(catConfig),
                      to |-> LatestTag(remoteCat)] >>
        ELSE << >>

RECURSIVE UpdatesOver(_, _, _)
UpdatesOver(cfg, remoteMeta, keys) ==
    IF Len(keys) = 0 THEN << >>
    ELSE UpdateFor(cfg, remoteMeta, Head(keys)) \o UpdatesOver(cfg, remoteMeta, Tail(keys))

\* the updates array built by checkForUpdates
ComputeUpdates(cfg, remoteMeta) == UpdatesOver(cfg, remoteMeta, SkillKeys(cfg))

RECURSIVE ApplyUpdates(_, _)

\* ApplyUpdates leaving the loop after the first candidate
ApplyUpdates_FirstOnly(cfg, ups) ==
    IF Len(ups) = 0 THEN cfg
    ELSE [cfg EXCEPT !.skills[Head(ups).category].ref = Some(Head(ups).to)]

\* for (const u of updates) config.skills[u.category].ref = u.to
ApplyUpdates(cfg, ups) ==
    IF Len(ups) = 0 THEN cfg
    ELSE ApplyUpdates([cfg EXCEPT !.skills[Head(ups).category].ref = Some(Head(ups).to)],
                      Tail(ups))

\* ConfigAfterAnswer without the test on updateAll
ConfigAfterAnswer_Always(cfg, ups, updateAll) == ApplyUpdates(cfg, ups)

\* if (updateAll) { for (const u of updates) ... }: the configuration after
\* the answer to the confirmation
ConfigAfterAnswer(cfg, ups, updateAll) ==
    IF updateAll = "yes" THEN ApplyUpdates(cfg, ups) ELSE cfg

\* yaml.dump(config) written to .skillsrc, and yaml.load of the file: keys
\* whose value is undefined are not part of the document
YamlDump(cfg) == [exists |-> TRUE, parseable |-> TRUE, doc |-> cfg]
YamlLoad(file) == file.doc

\* repoData.default_branch || 'main'
DefaultBranch(repoData) == OrElseStr(repoData.default_branch, "main")

\* EnabledCategories without the filter on value.enabled
EnabledCategories_All(cfg) == SkillKeys(cfg)

\* enabledCategories of run()
EnabledCategories(cfg) == SelectSeq(SkillKeys(cfg), LAMBDA c : cfg.skills[c].enabled)


(***************************************************************************)
(* The environment: the remote registry and the local project.             *)
(***************************************************************************)
\* the recursive tree listing the registry serves (the same at every ref)
RemoteTree ==
    << [path |-> "skills",                                      type |-> "tree"],
       [path |-> "skills/metadata.json",                        type |-> "blob"],
       [path |-> "skills/flutter",                              type |-> "tree"],
       [path |-> "skills/flutter/README.md",                    type |-> "blob"],
       [path |-> "skills/flutter/bloc",                         type |-> "tree"],
       [path |-> "skills/flutter/bloc/SKILL.md",                type |-> "blob"],
       [path |-> "skills/flutter/bloc/notes.txt",               type |-> "blob"],
       [path |-> "skills/flutter/bloc/references",              type |-> "tree"],
       [path |-> "skills/flutter/bloc/references/REFERENCE.md", type |-> "blob"],
       [path |-> "skills/flutter/bloc/references/img",          type |-> "tree"],
       [path |-> "skills/flutter/bloc/scripts/run.sh",          type |-> "blob"],
       [path |-> "skills/flutter/bloc/docs/SKILL.md",           type |-> "blob"],
       [path |-> "skills/flutter/drafts",                       type |-> "tree"],
       [path |-> "skills/flutter/drafts/TODO.md",               type |-> "blob"],
       [path |-> "skills/flutter/getx",                         type |-> "tree"],
       [path |-> "skills/flutter/getx/SKILL.md",                type |-> "blob"],
       [path |-> "skills/dart",                                 type |-> "tree"],
       [path |-> "skills/dart/language",                        type |-> "tree"],
       [path |-> "skills/dart/language/SKILL.md",               type |-> "blob"] >>

\* what discovery finds in that listing, per category
RemoteDiscovered ==
    [ c \in Range(CategoryOrder) |-> Discovered(RemoteTree, c) ]

\* the raw text the registry serves for a path at a ref
RawContent(ref, path) == ref \o ":" \o path

\* the metadata documents (skills/metadata.json) the registry may serve at a
\* ref: the documents of the branch trunk and those of any other ref
MetaBodies(ref) ==
    IF ref = "trunk"
    THEN { [categories |-> Some(
              [c \in {"flutter", "dart"} |->
                  IF c = "flutter"
                  THEN [version |-> Some("2.0.0"), tag_prefix |-> Some("v")]
                  ELSE [version |-> Some("2.0.0"), tag_prefix |-> None]])],
           [categories |-> None] }
    ELSE { [categories |-> Some(
              [c \in {"flutter", "dart"} |->
                  IF c = "flutter"
                  THEN [version |-> Some("1.0.0"), tag_prefix |-> Some("v")]
                  ELSE [version |-> Some("2.0.0"), tag_prefix |-> Some("v")]])],
           [categories |-> Some(
              [c \in {"flutter"} |->
                  [version |-> Some("2.0.0"), tag_prefix |-> Some("")]])] }

\* the repository descriptions the registry may serve
RepoBodies == { [default_branch |-> Some("trunk")], [default_branch |-> None] }

GithubRegistry == "https://github.com/NamNHCem/agent-skills-standard"
OtherRegistry == "https://gitlab.com/acme/skills"
OwnerOnlyRegistry == "https://github.com/NamNHCem"
\* the repository init reads the tree and the metadata of, at the ref main
InitRepo == [owner |-> "NamNHCem", repo |-> "agent-skills-standard"]
\* a repository whose name contains a dot
DottedRegistry == "https://github.com/NamNHCem/skills.v2"

Registries ==
    { Some(GithubRegistry), Some(OtherRegistry), Some(OwnerOnlyRegistry), None }

CatCfg(enabled, ref, include, exclude) ==
    [enabled |-> enabled, ref |-> ref, include |-> include, exclude |-> exclude]

SkillMaps ==
    { [c \in {"flutter", "dart"} |->
          IF c = "flutter" THEN CatCfg(TRUE, Some("v1.0.0"), None, None)
          ELSE CatCfg(TRUE, None, None, None)],
      [c \in {"flutter", "dart"} |->
          IF c = "flutter"
          THEN CatCfg(TRUE, None, Some(<< "bloc", "getx" >>), Some(<< "getx" >>))
          ELSE CatCfg(FALSE, Some("v1.0.0"), None, None)],
      [c \in {"flutter", "dart"} |->
          IF c = "flutter" THEN CatCfg(TRUE, Some("v2.0.0"), Some(<< >>), None)
          ELSE CatCfg(TRUE, Some("main"), None, Some(<< "language" >>))],
      [c \in {"flutter"} |-> CatCfg(TRUE, Some(""), Some(<< "getx" >>), None)] }

\* the agents and custom_overrides keys of .skillsrc: neither, an empty
\* agents list, and a list with an unknown agent together with overrides of
\* a file, of a directory, and one that ends inside the name of a directory
Targets ==
    { [agents |-> None, custom_overrides |-> None],
      [agents |-> Some(<< >>), custom_overrides |-> None],
      [agents |-> Some(<< "cursor", "bogus", "claude" >>),
       custom_overrides |-> Some(<< ".cursor/skills/flutter/bloc/SKILL.md",
                                   ".claude\\skills\\flutter/",
                                   ".cursor/skills/flutter/bl" >>)] }

\* the documents .skillsrc may hold
ConfigDocs ==
    { [registry |-> r, agents |-> t.agents, skills |-> k,
       custom_overrides |-> t.custom_overrides] :
        r \in Registries, k \in SkillMaps, t \in Targets }
      \cup { [registry |-> Some(DottedRegistry), agents |-> t.agents, skills |-> k,
              custom_overrides |-> t.custom_overrides] :
                k \in { m \in SkillMaps : DOMAIN m = {"flutter"} },
                t \in { CHOOSE t \in Targets : TRUE } }

\* the states of the file .skillsrc
ConfigFiles ==
    { YamlDump(d) : d \in ConfigDocs }
      \cup { [exists |-> FALSE, parseable |-> FALSE, doc |-> d] :
                d \in { CHOOSE d \in ConfigDocs : TRUE } }
      \cup { [exists |-> TRUE, parseable |-> FALSE, doc |-> d] :
                d \in { CHOOSE d \in ConfigDocs : TRUE } }

\* the project directory before the first run: a locally edited copy of a
\* published file, a skill of the user's own and a skill no longer published
InitialFiles ==
    (".cursor/skills/flutter/bloc/SKILL.md" :> "local edit")
    @@ (".claude/skills/flutter/getx/SKILL.md" :> "local edit")
    @@ (".cursor/skills/custom/mine/SKILL.md" :> "own skill")
    @@ (".cursor/skills/flutter/retired/SKILL.md" :> "retired skill")

InitialFs ==
    [files |-> InitialFiles,
     dirs  |-> UNION { Ancestors(f) : f \in DOMAIN InitialFiles }]


(***************************************************************************)
(* State.                                                                  *)
(***************************************************************************)
\* the two RegExp matches of every registry string of the input documents
RegistryValues == { Get(d.registry) : d \in { e \in ConfigDocs : e.registry # None } }
UpdateMatches == [ r \in RegistryValues |-> UpdateRegistryMatch(r) ]
AssembleMatches == [ r \in RegistryValues |-> AssembleRegistryMatch(r) ]

VARIABLES
    pc,            \* the position of the current run
    run,           \* the number of the current run
    faults,        \* failures of requests and file-system calls so far
    cfgFile,       \* the file .skillsrc
    fsys,          \* the files and directories of the project directory
    remote,        \* what the registry has answered so far: it answers the
                   \* same request the same way for the whole behaviour
    config,        \* the in-memory SkillConfig of the run, None before load
    locator,       \* owner and repo of the requests being issued
    defaultBranch, \* checkForUpdates: the branch the metadata is read from
    updates,       \* checkForUpdates: the update candidates
    cats,          \* assembleFromRemote: the categories still to process
    work,          \* assembleFromRemote: the skills of the current category
                   \* still to process, each with the files still to fetch
    skillFiles,    \* assembleFromRemote: the files fetched for the current skill
    collected,     \* assembleFromRemote: the collected skills
    obs,           \* what the current run has done so far
    prev           \* the file system and the observations at the end of the
                   \* previous run, None in the first run

vars == << pc, run, faults, cfgFile, fsys, remote, config, locator,
           defaultBranch, updates, cats, work, skillFiles, collected, obs, prev >>

NoLocator == [owner |-> "", repo |-> ""]

\* the exit status of the process when run() has ended with a result: run()
\* returns normally when .skillsrc is missing and after its catch block, the
\* action of the sync command only awaits it, and nothing sets an exit code
ExitStatus(result) == 0

\* the observations at the start of a run
FreshObs(file, fs) ==
    [requests     |-> << >>,   \* the requests issued, in order
     prompts      |-> 0,       \* the confirmations asked
     answer       |-> "none",  \* the answer to the confirmation
     thrown       |-> {},      \* where exceptions were raised
     candidates   |-> None,    \* the update candidates computed
     persisted    |-> FALSE,   \* .skillsrc was written
     stages       |-> {},      \* the stages entered
     pinned       |-> None,    \* the configuration as loaded
     fileAtStart  |-> file,    \* .skillsrc at the start of the run
     fsAtStart    |-> fs,      \* the project directory at the start of the run
     result       |-> "running",
     exit         |-> None,    \* the exit status of the process, once ended
     advice       |-> "none"]  \* what the user is told to do next

\* the registry before the first request: nothing answered, and no metadata
\* read by sync (meta) or by init (initMeta)
NothingAnswered ==
    [status |-> << >>, repo |-> None, meta |-> None, initMeta |-> None]

Init ==
    /\ pc = "start"
    /\ run = 1
    /\ faults = 0
    /\ cfgFile \in ConfigFiles
    /\ fsys = InitialFs
    /\ remote = NothingAnswered
    /\ config = None
    /\ locator = NoLocator
    /\ defaultBranch = ""
    /\ updates = << >>
    /\ cats = << >>
    /\ work = << >>
    /\ skillFiles = << >>
    /\ collected = << >>
    /\ obs = FreshObs(cfgFile, fsys)
    /\ prev = None

(***************************************************************************)
(* Requests to the registry (node-fetch).                                  *)
(***************************************************************************)
\* the ways a request may end: a success status, another status, or a
\* rejected promise; a request already answered is answered the same way
Outcomes(slot) ==
    IF slot \in DOMAIN remote.status THEN { remote.status[slot] }
    ELSE {"ok"} \cup (IF faults < MaxFaults THEN {"notok", "throw"} ELSE {})

Answered(slot, outcome) == (slot :> outcome) @@ remote.status

FaultsAfter(slot, outcome) ==
    IF slot \notin DOMAIN remote.status /\ outcome # "ok" THEN faults + 1 ELSE faults

\* the record of a request: what was asked, for which category, skill and
\* file of the run, and how it ended
Request(kind, ref, path, category, skill, name, outcome) ==
    [kind |-> kind, owner |-> locator.owner, repo |-> locator.repo,
     ref |-> ref, path |-> path, category |-> category, skill |-> skill,
     name |-> name, outcome |-> outcome]

(***************************************************************************)
(* SyncCommand.run up to checkForUpdates.                                  *)
(***************************************************************************)
\* PathExists answering that the file exists whatever the directory holds
PathExists_Always(file) == TRUE

\* fs.pathExists(configPath)
PathExists(file) == file.exists

\* run(): .skillsrc is looked up, read and parsed
RunStart ==
    /\ pc = "start"
    /\ IF ~ PathExists(cfgFile)
       THEN /\ obs' = [obs EXCEPT !.result = "missing",
                                  !.advice = "init",
                                  !.exit = Some(ExitStatus("missing"))]
            /\ pc' = "done"
            /\ UNCHANGED config
       ELSE IF ~ cfgFile.parseable
       THEN /\ obs' = [obs EXCEPT !.result = "failed", !.thrown = @ \cup {"load"},
                                  !.exit = Some(ExitStatus("failed"))]
            /\ pc' = "done"
            /\ UNCHANGED config
       ELSE /\ config' = Some(YamlLoad(cfgFile))
            /\ obs' = [obs EXCEPT !.pinned = Some(YamlLoad(cfgFile))]
            /\ pc' = "cli"
    /\ UNCHANGED << run, faults, cfgFile, fsys, remote, locator, defaultBranch,
                    updates, cats, work, skillFiles, collected, prev >>

\* checkCLIUpdate(): the npm registry is asked for the latest version;
\* whatever it answers, only a message is printed, and every exception is
\* caught, so the answer is not part of the state
CheckCLIUpdate ==
    /\ pc = "cli"
    /\ obs' = [obs EXCEPT
                 !.requests = Append(@, Request("npm", "", "", "", "", "", "ignored"))]
    /\ pc' = "registry"
    /\ UNCHANGED << run, faults, cfgFile, fsys, remote, config, locator,
                    defaultBranch, updates, cats, work, skillFiles, collected,
                    prev >>

(***************************************************************************)
(* checkForUpdates.                                                        *)
(***************************************************************************)
\* config.registry.match(...), before the try block: a registry that is not
\* a string raises a TypeError that only run() catches
ParseRegistry ==
    /\ pc = "registry"
    /\ IF Get(config).registry = None
       THEN /\ obs' = [obs EXCEPT !.stages = @ \cup {"reconcile"},
                                  !.thrown = @ \cup {"registry"},
                                  !.result = "failed",
                                  !.exit = Some(ExitStatus("failed"))]
            /\ pc' = "done"
            /\ UNCHANGED locator
       ELSE LET githubMatch == UpdateMatches[Get(Get(config).registry)]
            IN  /\ obs' = [obs EXCEPT !.stages = @ \cup {"reconcile"}]
                /\ IF githubMatch = None
                   THEN pc' = "assemble" /\ UNCHANGED locator
                   ELSE pc' = "repo" /\ locator' = Get(githubMatch)
    /\ UNCHANGED << run, faults, cfgFile, fsys, remote, config, defaultBranch,
                    updates, cats, work, skillFiles, collected, prev >>

\* 1. Get default branch
FetchRepo ==
    /\ pc = "repo"
    /\ \E outcome \in Outcomes("repo") :
        \E body \in (IF IsSome(remote.repo) THEN {Get(remote.repo)} ELSE RepoBodies) :
          /\ faults' = FaultsAfter("repo", outcome)
          /\ obs' = [obs EXCEPT
                       !.requests = Append(@, Request("repo", "", "", "", "", "", outcome)),
                       !.thrown = IF outcome = "throw" THEN @ \cup {"repo"} ELSE @]
          /\ IF outcome = "ok"
             THEN /\ remote' = [remote EXCEPT !.status = Answered("repo", outcome),
                                              !.repo = Some(body)]
                  /\ defaultBranch' = DefaultBranch(body)
                  /\ pc' = "meta"
             ELSE /\ remote' = [remote EXCEPT !.status = Answered("repo", outcome)]
                  /\ UNCHANGED defaultBranch
                  /\ pc' = "assemble"
    /\ UNCHANGED << run, cfgFile, fsys, config, locator, updates, cats, work,
                    skillFiles, collected, prev >>

\* the documents the registry may serve for skills/metadata.json of the
\* repository and branch asked: the one it served before, to sync or, for the
\* same repository and branch, to init
MetaServed ==
    IF IsSome(remote.meta) THEN { Get(remote.meta) }
    ELSE IF IsSome(remote.initMeta) /\ defaultBranch = "main" /\ locator = InitRepo
    THEN { Get(remote.initMeta) }
    ELSE MetaBodies(defaultBranch)

\* 2. Fetch remote metadata.json, and the comparison loop
FetchMeta ==
    /\ pc = "meta"
    /\ \E outcome \in Outcomes("meta") :
        \E remoteMeta \in MetaServed :
          /\ faults' = FaultsAfter("meta", outcome)
          /\ IF outcome = "ok"
             THEN LET ups == ComputeUpdates(Get(config), remoteMeta)
                  IN  /\ remote' = [remote EXCEPT !.status = Answered("meta", outcome),
                                                  !.meta = Some(remoteMeta)]
                      /\ updates' = ups
                      /\ obs' = [obs EXCEPT
                                   !.requests = Append(@, Request("raw", defaultBranch,
                                                           "skills/metadata.json",
                                                           "", "", "", outcome)),
                                   !.candidates = Some(ups)]
                      /\ pc' = IF Len(ups) > 0 THEN "prompt" ELSE "assemble"
             ELSE /\ remote' = [remote EXCEPT !.status = Answered("meta", outcome)]
                  /\ UNCHANGED updates
                  /\ obs' = [obs EXCEPT
                               !.requests = Append(@, Request("raw", defaultBranch,
                                                       "skills/metadata.json",
                                                       "", "", "", outcome)),
                               !.thrown = IF outcome = "throw" THEN @ \cup {"meta"} ELSE @]
                  /\ pc' = "assemble"
    /\ UNCHANGED << run, cfgFile, fsys, config, locator, defaultBranch, cats,
                    work, skillFiles, collected, prev >>

\* inquirer.prompt: the single confirmation, and the rewrite of the refs
Prompt ==
    /\ pc = "prompt"
    /\ \E updateAll \in {"yes", "no"} \cup (IF faults < MaxFaults THEN {"threw"} ELSE {}) :
          /\ obs' = [obs EXCEPT
                       !.prompts = @ + 1,
                       !.answer = updateAll,
                       !.thrown = IF updateAll = "threw" THEN @ \cup {"prompt"} ELSE @]
          /\ faults' = IF updateAll = "threw" THEN faults + 1 ELSE faults
          /\ config' = Some(ConfigAfterAnswer(Get(config), updates, updateAll))
          /\ pc' = IF updateAll = "yes" THEN "persist" ELSE "assemble"
    /\ UNCHANGED << run, cfgFile, fsys, remote, locator, defaultBranch, updates,
                    cats, work, skillFiles, collected, prev >>

\* fs.writeFile(configPath, yaml.dump(config))
Persist ==
    /\ pc = "persist"
    /\ \E written \in {TRUE} \cup (IF faults < MaxFaults THEN {FALSE} ELSE {}) :
          IF written
          THEN /\ cfgFile' = YamlDump(Get(config))
               /\ obs' = [obs EXCEPT !.persisted = TRUE]
               /\ UNCHANGED faults
          ELSE /\ UNCHANGED cfgFile
               /\ obs' = [obs EXCEPT !.thrown = @ \cup {"persist"}]
               /\ faults' = faults + 1
    /\ pc' = "assemble"
    /\ UNCHANGED << run, fsys, remote, config, locator, defaultBranch, updates,
                    cats, work, skillFiles, collected, prev >>


(***************************************************************************)
(* assembleFromRemote.                                                     *)
(***************************************************************************)
\* the end of the loop body of a skill whose files have all been handled,
\* repeated while the next skill has no file to fetch
RECURSIVE Advance(_, _, _, _)
Advance(category, todoSkills, files, coll) ==
    IF Len(todoSkills) = 0
    THEN [work |-> << >>, skillFiles |-> << >>, collected |-> coll]
    ELSE IF Len(Head(todoSkills).todo) = 0
    THEN Advance(category, Tail(todoSkills), << >>,
                 CollectSkill(coll, category, Head(todoSkills).skill, files))
    ELSE [work |-> todoSkills, skillFiles |-> files, collected |-> coll]

\* the end of one iteration of the loop over the categories
NextCategory ==
    /\ cats' = Tail(cats)
    /\ pc' = IF Len(Tail(cats)) = 0 THEN "write" ELSE "tree"

\* SkipCategory with the failure passed on to run(): the assembly and the
\* run end there, and nothing is written
SkipCategory_Rethrow ==
    /\ cats' = << >>
    /\ pc' = "done"

\* SkipCategory leaving the loop over the categories
SkipCategory_Abort ==
    /\ cats' = << >>
    /\ pc' = "write"

\* `continue` after an unsuccessful tree listing, and the catch block of the
\* category: the loop goes on with the next category
SkipCategory == NextCategory

\* the state after Advance: either a file to fetch, or the next category
Continue(adv) ==
    /\ work' = adv.work
    /\ skillFiles' = adv.skillFiles
    /\ collected' = adv.collected
    /\ IF Len(adv.work) = 0 THEN NextCategory
       ELSE pc' = "fetch" /\ UNCHANGED cats

\* run(): enabledCategories; assembleFromRemote: the registry is parsed
AssembleBegin ==
    /\ pc = "assemble"
    /\ LET githubMatch == AssembleMatches[Get(Get(config).registry)]
           enabledCategories == EnabledCategories(Get(config))
       IN  /\ obs' = [obs EXCEPT !.stages = @ \cup {"assemble"}]
           /\ collected' = << >>
           /\ IF githubMatch = None
              THEN /\ pc' = "write"
                   /\ cats' = << >>
                   /\ UNCHANGED locator
              ELSE /\ locator' = Get(githubMatch)
                   /\ cats' = enabledCategories
                   /\ pc' = IF Len(enabledCategories) = 0 THEN "write" ELSE "tree"
    /\ UNCHANGED << run, faults, cfgFile, fsys, remote, config, defaultBranch,
                    updates, work, skillFiles, prev >>

TreeSlot(category, ref) == "tree/" \o category \o "@" \o ref

\* CategoryRef taking the ref of the first category for every category
CategoryRef_First(cfg, category) == CurrentRef(cfg.skills[CategoryOrder[1]])

\* const categoryConfig = config.skills[category];
\* const ref = categoryConfig.ref || 'main';
CategoryRef(cfg, category) == CurrentRef(cfg.skills[category])

\* ConfigAfterCategory with the default stored in the configuration
\* (categoryConfig.ref ||= 'main')
ConfigAfterCategory_StoreRef(cfg, category) ==
    [cfg EXCEPT !.skills[category].ref = Some(CurrentRef(cfg.skills[category]))]

\* const categoryConfig = config.skills[category]; const ref =
\* categoryConfig.ref || 'main': the configuration after the assembler has
\* taken the category and its ref from it; both are only read
ConfigAfterCategory(cfg, category) == cfg

\* one category: the tree listing, the skill folders and the filter
ListTree ==
    /\ pc = "tree"
    /\ LET category       == Head(cats)
           categoryConfig == Get(config).skills[category]
           ref            == CategoryRef(Get(config), category)
           slot           == TreeSlot(category, ref)
       IN  \E outcome \in Outcomes(slot) :
             /\ remote' = [remote EXCEPT !.status = Answered(slot, outcome)]
             /\ faults' = FaultsAfter(slot, outcome)
             /\ obs' = [obs EXCEPT
                          !.requests = Append(@, Request("tree", ref, "", category, "", "", outcome)),
                          !.thrown = IF outcome = "throw" THEN @ \cup {"tree"} ELSE @]
             /\ IF outcome = "ok"
                THEN \E adv \in { Advance(category,
                                     SkillWork(RemoteDiscovered[category], categoryConfig),
                                     << >>, collected) } : Continue(adv)
                ELSE /\ SkipCategory
                     /\ UNCHANGED << work, skillFiles, collected >>
             /\ config' = Some(ConfigAfterCategory(Get(config), category))
    /\ UNCHANGED << run, cfgFile, fsys, locator, defaultBranch, updates, prev >>

RawPath(category, skillFolderName, relativePath) ==
    "skills/" \o category \o "/" \o skillFolderName \o "/" \o relativePath

RawSlot(ref, path) == "raw/" \o ref \o "/" \o path

\* one file of the current skill: the raw fetch
FetchFile ==
    /\ pc = "fetch"
    /\ LET category     == Head(cats)
           ref          == CategoryRef(Get(config), category)
           skill        == Head(work).skill
           relativePath == Head(Head(work).todo)
           path         == RawPath(category, skill, relativePath)
           slot         == RawSlot(ref, path)
           rest         == << [skill |-> skill, todo |-> Tail(Head(work).todo)] >>
                               \o Tail(work)
       IN  \E outcome \in Outcomes(slot) :
             /\ remote' = [remote EXCEPT !.status = Answered(slot, outcome)]
             /\ faults' = FaultsAfter(slot, outcome)
             /\ obs' = [obs EXCEPT
                          !.requests = Append(@, Request("raw", ref, path, category, skill,
                                                       relativePath, outcome)),
                          !.thrown = IF outcome = "throw" THEN @ \cup {"raw"} ELSE @]
             /\ CASE outcome = "ok" ->
                       \E adv \in { Advance(category, rest,
                                       Append(skillFiles,
                                          [name |-> relativePath,
                                           content |-> RawContent(ref, path)]),
                                       collected) } : Continue(adv)
                  [] outcome = "notok" ->
                       \E adv \in { Advance(category, rest, skillFiles, collected) } :
                           Continue(adv)
                  [] outcome = "throw" ->
                       \* the catch block of the category
                       /\ work' = << >>
                       /\ skillFiles' = << >>
                       /\ UNCHANGED collected
                       /\ SkipCategory
    /\ UNCHANGED << run, cfgFile, fsys, config, locator, defaultBranch, updates, prev >>

(***************************************************************************)
(* writeToTargets and the end of run().                                    *)
(***************************************************************************)
WriteTargets ==
    /\ pc = "write"
    /\ fsys' = WriteToTargets(fsys, collected, Get(config))
    /\ obs' = [obs EXCEPT !.stages = @ \cup {"write"}, !.result = "success",
                           !.exit = Some(ExitStatus("success"))]
    /\ pc' = "done"
    /\ UNCHANGED << run, faults, cfgFile, remote, config, locator, defaultBranch,
                    updates, cats, work, skillFiles, collected, prev >>

\* the user runs sync again
Restart ==
    /\ pc = "done"
    /\ run < MaxRuns
    /\ run' = run + 1
    /\ pc' = "start"
    /\ prev' = Some([fsys |-> fsys, obs |-> obs, config |-> config,
                     collected |-> collected])
    /\ config' = None
    /\ locator' = NoLocator
    /\ defaultBranch' = ""
    /\ updates' = << >>
    /\ cats' = << >>
    /\ work' = << >>
    /\ skillFiles' = << >>
    /\ collected' = << >>
    /\ obs' = FreshObs(cfgFile, fsys)
    /\ UNCHANGED << faults, cfgFile, fsys, remote >>

Next ==
    \/ RunStart
    \/ CheckCLIUpdate
    \/ ParseRegistry
    \/ FetchRepo
    \/ FetchMeta
    \/ Prompt
    \/ Persist
    \/ AssembleBegin
    \/ ListTree
    \/ FetchFile
    \/ WriteTargets
    \/ Restart

Spec == Init /\ [][Next]_vars

\* the steps of a run: run() is a chain of awaits, each of which is resumed
\* when its request, prompt or file-system call has ended
RunStep ==
    \/ RunStart \/ CheckCLIUpdate \/ ParseRegistry \/ FetchRepo \/ FetchMeta
    \/ Prompt \/ Persist \/ AssembleBegin \/ ListTree \/ FetchFile
    \/ WriteTargets

\* runs that go on until they end
LiveSpec == Init /\ [][Next]_vars /\ WF_vars(RunStep)

(***************************************************************************)
(* InitCommand.run.  The detection of the framework and of the agents only *)
(* chooses the defaults of the questions, and the listing of the registry  *)
(* only the labels of the choices and a notice; the answers are the user's.*)
(***************************************************************************)
\* neededSkills: the framework, its languages, and react for Next.js and
\* React Native
NeededSkills(framework) ==
    {framework}
      \cup (IF IsSome(FindFramework(framework))
            THEN Range(Get(FindFramework(framework)).languages) ELSE {})
      \cup (IF framework \in {"nextjs", "react-native"} THEN {"react"} ELSE {})

\* RefStr without the tag prefix
RefStr_VersionOnly(skillMeta) ==
    IF IsSome(skillMeta) /\ TruthyStr(Get(skillMeta).version)
          /\ TruthyStr(Get(skillMeta).tag_prefix)
    THEN Some(Get(Get(skillMeta).version))
    ELSE None

\* if (skillMeta?.version && skillMeta?.tag_prefix)
\*     refStr = `${skillMeta.tag_prefix}${skillMeta.version}`
RefStr(skillMeta) ==
    IF IsSome(skillMeta) /\ TruthyStr(Get(skillMeta).version)
          /\ TruthyStr(Get(skillMeta).tag_prefix)
    THEN Some(Get(Get(skillMeta).tag_prefix) \o Get(Get(skillMeta).version))
    ELSE None

\* the configuration built from the answers: the needed categories among
\* the known ones, each enabled and with the ref of the metadata
InitConfig(answers, metadata) ==
    [registry |-> Some(answers.registry),
     agents |-> Some(answers.agents),
     skills |-> [ c \in Range(AllKnownCategories) \cap NeededSkills(answers.framework)
                    |-> CatCfg(TRUE, RefStr(RemoteCategory(metadata, c)), None, None) ],
     custom_overrides |-> Some(<< >>)]

\* let metadata = {}, replaced by the answer of the registry
InitMetadata == IF IsSome(remote.initMeta) THEN Get(remote.initMeta)
                ELSE [categories |-> None]

\* the answers to the questions of init
FrameworkAnswers == {"flutter", "nextjs"}
AgentAnswers == { << >>, << "cursor", "claude" >> }
RegistryAnswers == { GithubRegistry, OtherRegistry }

\* .skillsrc before init: missing, or written earlier
InitConfigFiles ==
    { f \in ConfigFiles : ~ f.exists }
      \cup { YamlDump(d) : d \in { e \in ConfigDocs :
                /\ e.registry = Some(GithubRegistry)
                /\ e.agents = None
                /\ "dart" \in DOMAIN e.skills
                /\ e.skills["flutter"].ref = Some("v2.0.0") } }

InitInit ==
    /\ pc = "init"
    /\ run = 1
    /\ faults = 0
    /\ cfgFile \in InitConfigFiles
    /\ fsys = InitialFs
    /\ remote = NothingAnswered
    /\ config = None
    /\ locator = NoLocator
    /\ defaultBranch = ""
    /\ updates = << >>
    /\ cats = << >>
    /\ work = << >>
    /\ skillFiles = << >>
    /\ collected = << >>
    /\ obs = FreshObs(cfgFile, fsys)
    /\ prev = None

\* a request of init: to the repository and at the ref of its URLs
InitRequest(kind, path, outcome) ==
    [Request(kind, "main", path, "", "", "", outcome)
        EXCEPT !.owner = InitRepo.owner, !.repo = InitRepo.repo]

\* Promise.all of the tree listing and of metadata.json: a rejection of
\* either leaves metadata as it is; otherwise metadata is the document
\* served when metadataRes.ok
InitFetch ==
    /\ pc = "init"
    /\ \E treeOut \in Outcomes("init/tree"), metaOut \in Outcomes("init/meta") :
        \E body \in MetaBodies("main") :
          LET failed == Cardinality({ o \in {<<1, treeOut>>, <<2, metaOut>>} : o[2] # "ok" })
              thrown == "throw" \in {treeOut, metaOut}
          IN  /\ faults + failed <= MaxFaults
              /\ faults' = faults + failed
              /\ remote' = [remote EXCEPT
                              !.status = ("init/tree" :> treeOut)
                                            @@ ("init/meta" :> metaOut) @@ @,
                              !.initMeta = IF ~ thrown /\ metaOut = "ok"
                                           THEN Some(body) ELSE @]
              /\ obs' = [obs EXCEPT
                           !.stages = @ \cup {"init"},
                           !.requests = @ \o << InitRequest("tree", "", treeOut),
                                                InitRequest("raw", "skills/metadata.json",
                                                            metaOut) >>,
                           !.thrown = IF thrown THEN @ \cup {"initFetch"} ELSE @]
    /\ pc' = "initConfirm"
    /\ UNCHANGED << run, cfgFile, fsys, config, locator, defaultBranch, updates,
                    cats, work, skillFiles, collected, prev >>

\* OverwriteGate going on to the questions whatever the answer
OverwriteGate_Always(exists, overwrite) ==
    IF exists /\ overwrite = "threw" THEN "done" ELSE "initAsk"

\* if (await fs.pathExists(configPath)) { ...; if (!overwrite) return; }:
\* where init goes on after the confirmation; a rejected prompt ends it
OverwriteGate(exists, overwrite) ==
    IF exists /\ overwrite # "yes" THEN "done" ELSE "initAsk"

\* the confirmation asked when .skillsrc exists
InitConfirm ==
    /\ pc = "initConfirm"
    /\ IF PathExists(cfgFile)
       THEN \E overwrite \in {"yes", "no"}
                                \cup (IF faults < MaxFaults THEN {"threw"} ELSE {}) :
              /\ obs' = [obs EXCEPT
                           !.prompts = @ + 1,
                           !.answer = overwrite,
                           !.thrown = IF overwrite = "threw"
                                      THEN @ \cup {"initConfirm"} ELSE @,
                           !.result = IF OverwriteGate(TRUE, overwrite) # "done" THEN @
                                      ELSE IF overwrite = "threw" THEN "failed"
                                      ELSE "aborted"]
              /\ faults' = IF overwrite = "threw" THEN faults + 1 ELSE faults
              /\ pc' = OverwriteGate(TRUE, overwrite)
       ELSE /\ pc' = OverwriteGate(FALSE, "none")
            /\ UNCHANGED << obs, faults >>
    /\ UNCHANGED << run, cfgFile, fsys, remote, config, locator, defaultBranch,
                    updates, cats, work, skillFiles, collected, prev >>

\* the questions for the framework, the agents and the registry, and the
\* configuration built from the answers
InitAsk ==
    /\ pc = "initAsk"
    /\ \/ \E framework \in FrameworkAnswers, agents \in AgentAnswers,
             registry \in RegistryAnswers :
             /\ config' = Some(InitConfig([framework |-> framework, agents |-> agents,
                                           registry |-> registry], InitMetadata))
             /\ obs' = [obs EXCEPT !.prompts = @ + 1]
             /\ pc' = "initWrite"
             /\ UNCHANGED faults
       \/ /\ faults < MaxFaults
          /\ faults' = faults + 1
          /\ obs' = [obs EXCEPT !.prompts = @ + 1,
                                !.thrown = @ \cup {"initAsk"},
                                !.result = "failed"]
          /\ pc' = "done"
          /\ UNCHANGED config
    /\ UNCHANGED << run, cfgFile, fsys, remote, locator, defaultBranch, updates,
                    cats, work, skillFiles, collected, prev >>

\* await fs.writeFile(configPath, yaml.dump(config))
InitWrite ==
    /\ pc = "initWrite"
    /\ \E written \in {TRUE} \cup (IF faults < MaxFaults THEN {FALSE} ELSE {}) :
          IF written
          THEN /\ cfgFile' = YamlDump(Get(config))
               /\ obs' = [obs EXCEPT !.persisted = TRUE, !.result = "ok",
                                     !.advice = "sync"]
               /\ UNCHANGED faults
          ELSE /\ UNCHANGED cfgFile
               /\ obs' = [obs EXCEPT !.thrown = @ \cup {"initWrite"},
                                     !.result = "failed"]
               /\ faults' = faults + 1
    /\ pc' = "done"
    /\ UNCHANGED << run, fsys, remote, config, locator, defaultBranch, updates,
                    cats, work, skillFiles, collected, prev >>

\* init, and the sync runs after it
InitNext == InitFetch \/ InitConfirm \/ InitAsk \/ InitWrite \/ Next

InitSpec == InitInit /\ [][InitNext]_vars

TypeOK ==
    /\ pc \in {"start", "cli", "registry", "repo", "meta", "prompt", "persist",
               "assemble", "tree", "fetch", "write", "done",
               "init", "initConfirm", "initAsk", "initWrite"}
    /\ run \in 1..MaxRuns
    /\ faults \in 0..MaxFaults


(***************************************************************************)
(* Properties.                                                             *)
(***************************************************************************)
\* the content of a file, None when the file does not exist
FileAt(fs, p) == IF p \in DOMAIN fs.files THEN Some(fs.files[p]) ELSE None

\* the files that exist now or existed at the start of the run
AllPaths == (DOMAIN fsys.files) \cup (DOMAIN obs.fsAtStart.files)

\* the files the run has created or changed so far
ChangedPaths == { p \in AllPaths : FileAt(fsys, p) # FileAt(obs.fsAtStart, p) }

\* an override rule names the path itself or a directory above it
RuleCovers(rule, p) ==
    LET r == BackslashToSlash(rule)
    IN  p = r \/ StripTrailingSlash(r) \in Ancestors(p)

Protected(cfg, p) ==
    \E i \in 1..Len(Overrides(cfg)) : RuleCovers(Overrides(cfg)[i], p)

\* the paths the run writes to when nothing is overridden: one per known
\* target agent and collected file
TargetsOf(cfg, coll) ==
    UNION { UNION {
        { [path |-> TargetFilePath(BasePath(TargetAgents(cfg)[a]), coll[k], coll[k].files[f]),
           content |-> coll[k].files[f].content] : f \in 1..Len(coll[k].files) } :
        k \in 1..Len(coll) } :
        a \in KnownAgents(TargetAgents(cfg)) }

\* C1: a file whose path matches an override rule (the rule is the path, or
\* a directory above it) has the content it had when the run started, also
\* when the registry serves other content for it: no file the run has
\* created or changed is covered by a rule
C1_OverrideInvariant ==
    IsSome(config) => \A p \in ChangedPaths : ~ Protected(Get(config), p)

\* a finished run that collected a file whose target is a protected local
\* file with other content
C1_Witness ==
    /\ pc = "done" /\ obs.result = "success"
    /\ \E t \in TargetsOf(Get(config), collected) :
          /\ Protected(Get(config), t.path)
          /\ t.path \in DOMAIN fsys.files
          /\ fsys.files[t.path] # t.content
    /\ \E t \in TargetsOf(Get(config), collected) :
          /\ Protected(Get(config), t.path)
          /\ \E i \in 1..Len(Overrides(Get(config))) :
                BackslashToSlash(Overrides(Get(config))[i]) # t.path
                /\ RuleCovers(Overrides(Get(config))[i], t.path)

\* C2: a second run with the same registry answers, the same configuration
\* and the same overrides leaves the project directory as the first run
\* left it
C2_Idempotence ==
    (pc = "done" /\ IsSome(prev) /\ Get(prev).config = config)
        => fsys = Get(prev).fsys

\* two successful runs with the same configuration, the first of which
\* wrote files
C2_Witness ==
    /\ pc = "done" /\ IsSome(prev) /\ Get(prev).config = config
    /\ obs.result = "success" /\ Get(prev).obs.result = "success"
    /\ Len(collected) > 0
    /\ Get(prev).fsys.files # Get(prev).obs.fsAtStart.files

\* the filter as the configuration states it
Allowed(catConfig, skill) ==
    /\ IsSome(catConfig.include) => \E i \in 1..Len(Get(catConfig.include)) :
                                        Get(catConfig.include)[i] = skill
    /\ IsSome(catConfig.exclude) => \A i \in 1..Len(Get(catConfig.exclude)) :
                                        Get(catConfig.exclude)[i] # skill

\* C3: every file request, every collected skill and every file written by
\* the run belongs to a skill that is in the include list of its category
\* (when there is one) and not in its exclude list (when there is one)
C3_FilterPrecedence ==
    IsSome(config) =>
        /\ \A i \in 1..Len(obs.requests) :
              obs.requests[i].skill # "" =>
                  Allowed(Get(config).skills[obs.requests[i].category],
                          obs.requests[i].skill)
        /\ \A k \in 1..Len(collected) :
              Allowed(Get(config).skills[collected[k].category], collected[k].skill)
        /\ \A p \in ChangedPaths :
              LET parts == SplitSlash(p)
              IN  /\ Len(parts) >= 4
                  /\ parts[3] \in DOMAIN Get(config).skills
                  /\ Allowed(Get(config).skills[parts[3]], parts[4])

\* include = [bloc, getx] and exclude = [getx]: the run ends with bloc
\* collected and written and getx neither requested nor collected
C3_Witness ==
    /\ pc = "done" /\ obs.result = "success"
    /\ Get(config).skills["flutter"].include = Some(<< "bloc", "getx" >>)
    /\ Get(config).skills["flutter"].exclude = Some(<< "getx" >>)
    /\ \E k \in 1..Len(collected) : collected[k].skill = "bloc"
    /\ ChangedPaths # {}

\* the requests for the files of one skill, by the way they ended
FileRequests(category, skill, outcomes) ==
    { i \in 1..Len(obs.requests) :
        /\ obs.requests[i].kind = "raw"
        /\ obs.requests[i].category = category
        /\ obs.requests[i].skill = skill
        /\ obs.requests[i].outcome \in outcomes }

\* the skills of a category some file of which has been requested
RequestedSkills ==
    { << obs.requests[i].category, obs.requests[i].skill >> :
        i \in { j \in 1..Len(obs.requests) : obs.requests[j].skill # "" } }

\* C4: when the fetch of one file of a skill does not succeed, whatever the
\* reason, and another file of the skill is fetched, the run ends with the
\* skill collected with exactly the fetched files, the other skills of the
\* category are still processed, and the run succeeds
C4_FetchDropTolerance ==
    (pc = "done" /\ "assemble" \in obs.stages) =>
        \A cs \in RequestedSkills :
            ( /\ FileRequests(cs[1], cs[2], {"notok", "throw"}) # {}
              /\ FileRequests(cs[1], cs[2], {"ok"}) # {} )
            => /\ obs.result = "success"
               /\ \E k \in 1..Len(collected) :
                     /\ collected[k].category = cs[1]
                     /\ collected[k].skill = cs[2]
                     /\ { collected[k].files[f].name : f \in 1..Len(collected[k].files) }
                           = { obs.requests[i].name :
                                 i \in FileRequests(cs[1], cs[2], {"ok"}) }
               /\ \A w \in Range(SkillWork(RemoteDiscovered[cs[1]],
                                           Get(config).skills[cs[1]])) :
                     Len(w.todo) > 0 => << cs[1], w.skill >> \in RequestedSkills

\* the directories the run has created so far
NewDirs == fsys.dirs \ obs.fsAtStart.dirs

\* C5: every collected skill has at least one file, and the run creates no
\* file and no directory for a skill none of whose files was fetched
C5_CollectedNonEmpty ==
    /\ \A k \in 1..Len(collected) : Len(collected[k].files) > 0
    /\ \A p \in ChangedPaths \cup NewDirs :
          LET parts == SplitSlash(p)
          IN  Len(parts) >= 4 => FileRequests(parts[3], parts[4], {"ok"}) # {}

\* a finished run that collected a skill, met a skill with no eligible file
\* and a skill whose only fetch failed
C5_Witness ==
    /\ pc = "done" /\ obs.result = "success"
    /\ Len(collected) > 0 /\ ChangedPaths # {}
    /\ \E i \in 1..Len(obs.requests) :
          /\ obs.requests[i].kind = "tree" /\ obs.requests[i].outcome = "ok"
          /\ obs.requests[i].category = "flutter"
    /\ Allowed(Get(config).skills["flutter"], "drafts")
    /\ FileRequests("flutter", "drafts", {"ok", "notok", "throw"}) = {}
    /\ \E cs \in RequestedSkills :
          /\ FileRequests(cs[1], cs[2], {"ok"}) = {}
          /\ \A k \in 1..Len(collected) :
                ~ (collected[k].category = cs[1] /\ collected[k].skill = cs[2])

\* the version or the tag_prefix of a category in the remote metadata, None
\* when the metadata has no such key
Published(remoteMeta, cat, key) ==
    IF remoteMeta.categories # None /\ cat \in DOMAIN Get(remoteMeta.categories)
    THEN IF key = "version" THEN Get(remoteMeta.categories)[cat].version
         ELSE Get(remoteMeta.categories)[cat].tag_prefix
    ELSE None

\* the ref a category is pinned at in a configuration, main when there is
\* none or an empty one
RefOrMain(cfg, cat) ==
    IF cfg.skills[cat].ref \in {None, Some("")} THEN "main" ELSE Get(cfg.skills[cat].ref)

\* the ref a category is pinned at in a configuration, main when the key is
\* not set
RefOrMainWhenUnset(cfg, cat) ==
    IF cfg.skills[cat].ref = None THEN "main" ELSE Get(cfg.skills[cat].ref)

\* the update candidates the metadata calls for when the values in lacking
\* count as lacking
ExpectedCandidates(cfg, remoteMeta, lacking, current(_, _)) ==
    { [category |-> cat, from |-> current(cfg, cat),
       to |-> Get(Published(remoteMeta, cat, "tag_prefix"))
                \o Get(Published(remoteMeta, cat, "version"))] :
        cat \in { c \in DOMAIN cfg.skills :
                    /\ cfg.skills[c].enabled
                    /\ Published(remoteMeta, c, "version") \notin lacking
                    /\ Published(remoteMeta, c, "tag_prefix") \notin lacking
                    /\ current(cfg, c) #
                         Get(Published(remoteMeta, c, "tag_prefix"))
                           \o Get(Published(remoteMeta, c, "version")) } }

C7_DeclineGating ==
    obs.answer = "no" =>
        /\ config = obs.pinned
        /\ cfgFile = obs.fileAtStart
        /\ ~ obs.persisted
        /\ \A i \in 1..Len(obs.requests) :
              obs.requests[i].category # "" =>
                  obs.requests[i].ref
                      = RefOrMain(Get(obs.pinned), obs.requests[i].category)

\* a declined update of a category pinned at a tag, assembled at that tag
C7_Witness ==
    /\ pc = "done" /\ obs.result = "success" /\ obs.answer = "no"
    /\ Len(collected) > 0
    /\ \E u \in Range(Get(obs.candidates)) :
          /\ u.from # "main"
          /\ \E i \in 1..Len(obs.requests) :
                /\ obs.requests[i].kind = "raw"
                /\ obs.requests[i].category = u.category
                /\ obs.requests[i].ref = u.from
                /\ obs.requests[i].outcome = "ok"

ReconcileThrows == {"registry", "repo", "meta", "prompt", "persist"}

\* C9: a run in which the reconciliation raised an exception, wherever it did,
\* still goes through the assemble and the write stage
C9_ReconcileNeverAborts ==
    (pc = "done" /\ obs.thrown \cap ReconcileThrows # {})
        => {"assemble", "write"} \subseteq obs.stages

\* C10: with an empty agents list, the base directory of every supported tool
\* exists after the run and holds every collected file that is not protected
C10_AgentsDefault ==
    ( /\ pc = "done" /\ obs.result = "success"
      /\ Get(config).agents = Some(<< >>)
      /\ Len(collected) > 0 ) =>
        \A a \in 1..Len(SUPPORTED_AGENTS) :
            /\ SUPPORTED_AGENTS[a].path \in fsys.dirs
            /\ \A k \in 1..Len(collected) : \A f \in 1..Len(collected[k].files) :
                  LET p == SUPPORTED_AGENTS[a].path \o "/" \o collected[k].category
                             \o "/" \o collected[k].skill \o "/"
                             \o collected[k].files[f].name
                  IN  ~ Protected(Get(config), p) =>
                          FileAt(fsys, p) = Some(collected[k].files[f].content)

\* the base directories of the supported agents named in the agents list
ListedBases(cfg) ==
    { SUPPORTED_AGENTS[i].path :
        i \in { j \in 1..Len(SUPPORTED_AGENTS) :
                  \E a \in 1..Len(Get(cfg.agents)) :
                      Get(cfg.agents)[a] = SUPPORTED_AGENTS[j].id } }

\* the agents list names an entry that is no supported agent
HasUnknownAgent(cfg) ==
    /\ IsSome(cfg.agents)
    /\ \E a \in 1..Len(Get(cfg.agents)) :
          \A j \in 1..Len(SUPPORTED_AGENTS) :
              SUPPORTED_AGENTS[j].id # Get(cfg.agents)[a]

\* C11: a run whose agents list has an unknown entry ends in success, every
\* directory it creates and every file it changes lies on the base directory
\* of a known agent of the list, and each of these base directories exists
\* and holds every collected file that is not protected
C11_UnknownToolTolerance ==
    (pc = "done" /\ "write" \in obs.stages /\ HasUnknownAgent(Get(config))) =>
        /\ obs.result = "success"
        /\ \A p \in ChangedPaths \cup NewDirs :
              \E b \in ListedBases(Get(config)) :
                  p = b \/ b \in Ancestors(p) \/ p \in Ancestors(b)
        /\ \A b \in ListedBases(Get(config)) :
              /\ b \in fsys.dirs
              /\ \A k \in 1..Len(collected) : \A f \in 1..Len(collected[k].files) :
                    LET p == b \o "/" \o collected[k].category \o "/"
                               \o collected[k].skill \o "/" \o collected[k].files[f].name
                    IN  ~ Protected(Get(config), p) =>
                            FileAt(fsys, p) = Some(collected[k].files[f].content)

\* a finished run with an unknown agent in the list that wrote a file for
\* the known agent listed after it
C11_Witness ==
    /\ pc = "done" /\ obs.result = "success"
    /\ Get(config).agents = Some(<< "cursor", "bogus", "claude" >>)
    /\ \E p \in ChangedPaths : ".claude/skills" \in Ancestors(p)
    /\ \E p \in ChangedPaths : ".cursor/skills" \in Ancestors(p)

\* the locator has the supported form: a segment that ends with github.com,
\* followed by an owner segment and a repo segment
SupportedForm(registry) ==
    LET parts == SplitSlash(registry)
    IN  \E i \in 1..(Len(parts) - 2) :
            /\ Len(parts[i]) >= 10
            /\ OccursIgnoreCase(parts[i], Len(parts[i]) - 9, "github.com")
            /\ parts[i + 1] # ""
            /\ parts[i + 2] # ""

\* SupportedForm of the registry locators of the model
SupportedForms == [ r \in RegistryValues |-> SupportedForm(r) ]

\* C12: with a locator that has not the supported form nothing is collected,
\* no request is sent to the skill registry, and the run ends in success
\* without an exception
C12_UnsupportedRegistry ==
    ( /\ IsSome(config) /\ IsSome(Get(config).registry)
      /\ ~ SupportedForms[Get(Get(config).registry)] ) =>
        /\ collected = << >>
        /\ \A i \in 1..Len(obs.requests) : obs.requests[i].kind = "npm"
        /\ obs.thrown = {}
        /\ pc = "done" => obs.result = "success" /\ "assemble" \in obs.stages

\* a finished run with a locator that names an owner and no repo
C12_Witness ==
    /\ pc = "done" /\ obs.result = "success"
    /\ Get(config).registry = Some(OwnerOnlyRegistry)
    /\ "assemble" \in obs.stages
    /\ Len(EnabledCategories(Get(config))) > 0

\* the requests of the assembly for a category, by kind and outcome
CategoryRequests(category, kinds, outcomes) ==
    { i \in 1..Len(obs.requests) :
        /\ obs.requests[i].category = category
        /\ obs.requests[i].kind \in kinds
        /\ obs.requests[i].outcome \in outcomes }

\* the categories of the configuration that are enabled
EnabledSet(cfg) == { c \in DOMAIN cfg.skills : cfg.skills[c].enabled }

\* a category whose listing or processing failed
CategoryFailed(category) ==
    \/ CategoryRequests(category, {"tree"}, {"notok", "throw"}) # {}
    \/ CategoryRequests(category, {"raw"}, {"throw"}) # {}

\* a category is processed in full: its tree is listed, every file to fetch
\* of every skill that passes the filter is requested, and the skills
\* collected for it are those with a fetched file, with the fetched files
ProcessedInFull(cfg, category) ==
    /\ CategoryRequests(category, {"tree"}, {"ok"}) # {}
    /\ \A w \in Range(RemoteDiscovered[category]) :
          Allowed(cfg.skills[category], w.skill) =>
              /\ \A n \in Range(w.todo) :
                    \E i \in FileRequests(category, w.skill, {"ok", "notok"}) :
                        obs.requests[i].name = n
              /\ FileRequests(category, w.skill, {"ok"}) # {} =>
                    \E k \in 1..Len(collected) :
                        /\ collected[k].category = category
                        /\ collected[k].skill = w.skill
                        /\ { collected[k].files[f].name :
                               f \in 1..Len(collected[k].files) }
                             = { obs.requests[i].name :
                                   i \in FileRequests(category, w.skill, {"ok"}) }

\* C13: at the end of an assembly with a supported locator, every enabled
\* category whose own listing and processing did not fail is processed in
\* full, whatever happened to the categories before and after it, and a
\* tree listing was requested for every enabled category
C13_CategoryIndependence ==
    ( /\ pc = "done" /\ "assemble" \in obs.stages
      /\ SupportedForms[Get(Get(config).registry)] ) =>
        \A c \in EnabledSet(Get(config)) :
            /\ CategoryRequests(c, {"tree"}, {"ok", "notok", "throw"}) # {}
            /\ ~ CategoryFailed(c) => ProcessedInFull(Get(config), c)

\* a run in which a fetch of the first category raised an exception and the
\* category after it was listed, fetched and collected
C13_Witness ==
    /\ pc = "done" /\ obs.result = "success"
    /\ CategoryRequests("flutter", {"raw"}, {"throw"}) # {}
    /\ "dart" \in EnabledSet(Get(config))
    /\ \E k \in 1..Len(collected) : collected[k].category = "dart"

\* C14: the process exits with a non-zero status exactly when .skillsrc is
\* missing or cannot be parsed
C14_ExitStatus ==
    pc = "done" =>
        ( Get(obs.exit) # 0 <=> (obs.result = "missing" \/ "load" \in obs.thrown) )

\* C15: a run started without .skillsrc ends at once as missing: it issues no
\* request, enters no stage, leaves the project directory and the absent
\* file as they are, and tells the user to run init
C15_ConfigurationMissing ==
    (pc # "start" /\ ~ obs.fileAtStart.exists) =>
        /\ pc = "done"
        /\ obs.result = "missing"
        /\ obs.advice = "init"
        /\ obs.requests = << >>
        /\ obs.stages = {}
        /\ obs.prompts = 0
        /\ fsys = obs.fsAtStart
        /\ cfgFile = obs.fileAtStart

\* a run that found no .skillsrc
C15_Witness ==
    /\ pc = "done" /\ ~ obs.fileAtStart.exists /\ obs.result = "missing"

\* C16: a run deletes no file and no directory, and every file it creates or
\* changes is the destination of a collected file of this run that no
\* override rule protects
C16_NonDestructiveWriter ==
    /\ DOMAIN obs.fsAtStart.files \subseteq DOMAIN fsys.files
    /\ obs.fsAtStart.dirs \subseteq fsys.dirs
    /\ \A p \in ChangedPaths :
          /\ ~ Protected(Get(config), p)
          /\ \E t \in TargetsOf(Get(config), collected) : t.path = p

\* a run that wrote skills for cursor beside the user's own skill and a
\* skill that is no longer published
C16_Witness ==
    /\ pc = "done" /\ obs.result = "success"
    /\ \E p \in ChangedPaths : ".cursor/skills" \in Ancestors(p)
    /\ FileAt(fsys, ".cursor/skills/custom/mine/SKILL.md") = Some("own skill")
    /\ FileAt(fsys, ".cursor/skills/flutter/retired/SKILL.md") = Some("retired skill")
    /\ \A k \in 1..Len(collected) : collected[k].skill # "retired"

\* every collected file that no override rule protects is on disk with the
\* fetched content, for every known agent of the effective list
CollectedWritten ==
    \A t \in TargetsOf(Get(config), collected) :
        ~ Protected(Get(config), t.path) => FileAt(fsys, t.path) = Some(t.content)

\* C17: a run that has loaded a configuration with a registry locator goes on,
\* whichever tree listings and file fetches fail, until the write stage has
\* written what was collected and that same run has ended in success
C17_PartialFailuresNotFatal ==
    \A r \in 1..MaxRuns :
        (pc = "cli" /\ run = r /\ IsSome(Get(config).registry))
            ~> ( /\ pc = "done" /\ run = r /\ obs.result = "success"
                 /\ "write" \in obs.stages
                 /\ CollectedWritten )

\* a successful run in which a tree listing or a file fetch failed and
\* another skill was collected and written
C17_Witness ==
    /\ pc = "done" /\ obs.result = "success"
    /\ \E i \in 1..Len(obs.requests) :
          /\ obs.requests[i].category # ""
          /\ obs.requests[i].outcome \in {"notok", "throw"}
    /\ Len(collected) > 0
    /\ ChangedPaths # {}

\* a tree listing has been requested in this run
TreeRequested ==
    \E i \in 1..Len(obs.requests) : obs.requests[i].kind = "tree"

\* the run is in the assembler or the writer, or past the first tree listing
PastReconcile ==
    \/ pc \in {"assemble", "tree", "fetch", "write"}
    \/ pc # "done" /\ TreeRequested

\* C18: within a run, a step of the assembler or of the writer, and any step
\* after the first tree-listing request, leaves the configuration object and
\* the configuration file as they are: both change only during reconcile
C18_ConfigConfinedToReconcile ==
    [][PastReconcile => (config' = config /\ cfgFile' = cfgFile)]_vars

\* a run that rewrote the configuration and its file during reconcile, then
\* listed a tree, collected skills and wrote them
C18_Witness ==
    /\ pc = "done" /\ obs.result = "success"
    /\ obs.persisted
    /\ cfgFile # obs.fileAtStart
    /\ config # obs.pinned
    /\ TreeRequested
    /\ Len(collected) > 0

\* baseDir/category/skill/relativeName
DestinationOf(base, category, skill, name) ==
    base \o "/" \o category \o "/" \o skill \o "/" \o name

\* the base directories of the known tools of the effective agents list: the
\* agents list of the configuration, every supported agent when it has none
EffectiveBases(cfg) ==
    IF IsSome(cfg.agents) THEN ListedBases(cfg)
    ELSE { SUPPORTED_AGENTS[i].path : i \in 1..Len(SUPPORTED_AGENTS) }

\* C19: when the write stage has ended, every collected file holds the
\* content the registry serves for it at the ref of its category, and for
\* every known tool of the effective agents list the file at
\* baseDir/category/skill/relativeName exists with that content unless an
\* override rule protects it, whatever was there before
C19_FullOverwrite ==
    (pc = "done" /\ "write" \in obs.stages) =>
        \A k \in 1..Len(collected) : \A f \in 1..Len(collected[k].files) :
            LET category == collected[k].category
                skill    == collected[k].skill
                file     == collected[k].files[f]
                ref      == CurrentRef(Get(config).skills[category])
            IN  /\ file.content = RawContent(ref, RawPath(category, skill, file.name))
                /\ \A b \in EffectiveBases(Get(config)) :
                      LET p == DestinationOf(b, category, skill, file.name)
                      IN  ~ Protected(Get(config), p)
                              => FileAt(fsys, p) = Some(file.content)

\* a finished run that replaced the content of a file that was there before
\* by the fetched content, and created another file
C19_Witness ==
    /\ pc = "done" /\ "write" \in obs.stages
    /\ \E k \in 1..Len(collected) : \E f \in 1..Len(collected[k].files) :
       \E b \in EffectiveBases(Get(config)) :
          LET p == DestinationOf(b, collected[k].category, collected[k].skill,
                                 collected[k].files[f].name)
          IN  /\ p \in DOMAIN obs.fsAtStart.files
              /\ obs.fsAtStart.files[p] # collected[k].files[f].content
              /\ FileAt(fsys, p) = Some(collected[k].files[f].content)
    /\ \E p \in ChangedPaths : p \notin DOMAIN obs.fsAtStart.files

\* the relative path is SKILL.md itself, or lies in one of the folders
\* references, scripts and assets of the skill
Eligible(rel) ==
    \/ rel = "SKILL.md"
    \/ ( Len(SplitSlash(rel)) >= 2
         /\ SplitSlash(rel)[1] \in {"references", "scripts", "assets"} )

\* the entries of the tree listing under skills/{category}/{skill}/, each
\* with its path relative to the skill folder
SkillEntries ==
    { [category |-> SplitSlash(RemoteTree[i].path)[2],
       skill    |-> SplitSlash(RemoteTree[i].path)[3],
       rel      |-> DropFirst(RemoteTree[i].path,
                        Len("skills/" \o SplitSlash(RemoteTree[i].path)[2] \o "/"
                            \o SplitSlash(RemoteTree[i].path)[3] \o "/")),
       type     |-> RemoteTree[i].type,
       path     |-> RemoteTree[i].path] :
        i \in { j \in 1..Len(RemoteTree) :
                  /\ Len(SplitSlash(RemoteTree[j].path)) >= 4
                  /\ SplitSlash(RemoteTree[j].path)[1] = "skills" } }

\* the entry is a file the standard names
EligibleEntry(e) == e.type = "blob" /\ Eligible(e.rel)

\* the paths of the entries the standard names
EligiblePaths == { e.path : e \in { d \in SkillEntries : EligibleEntry(d) } }

\* the other entries under a skill folder, by category, skill and relative
\* path, and the places they would be written to
IneligibleNames ==
    { << e.category, e.skill, e.rel >> :
        e \in { d \in SkillEntries : ~ EligibleEntry(d) } }

IneligibleDestinations ==
    { DestinationOf(SUPPORTED_AGENTS[a].path, n[1], n[2], n[3]) :
        a \in 1..Len(SUPPORTED_AGENTS), n \in IneligibleNames }

\* C20: every request for a file of a skill is for an entry of the tree
\* listing that is a blob and whose path relative to its skill folder is
\* SKILL.md or begins
\* with references/, scripts/ or assets/; any other entry under a skill
\* folder is never requested, never collected and never written to the
\* directory of any tool
C20_FileEligibility ==
    /\ \A i \in 1..Len(obs.requests) :
          (obs.requests[i].kind = "raw" /\ obs.requests[i].skill # "") =>
              obs.requests[i].path \in EligiblePaths
    /\ \A k \in 1..Len(collected) :
          \A f \in 1..Len(collected[k].files) :
              << collected[k].category, collected[k].skill, collected[k].files[f].name >>
                  \notin IneligibleNames
    /\ ChangedPaths \cap IneligibleDestinations = {}

\* a finished run that fetched and wrote the SKILL.md, a reference and a
\* script of a skill whose folder also lists a directory under references,
\* another top-level file and a SKILL.md in another subfolder
C20_Witness ==
    /\ pc = "done" /\ obs.result = "success"
    /\ \E k \in 1..Len(collected) :
          /\ { collected[k].files[f].name : f \in 1..Len(collected[k].files) }
                = {"SKILL.md", "references/REFERENCE.md", "scripts/run.sh"}
          /\ \E e \in SkillEntries :
                /\ e.category = collected[k].category /\ e.skill = collected[k].skill
                /\ e.type = "tree" /\ Eligible(e.rel)
          /\ \E e \in SkillEntries :
                /\ e.category = collected[k].category /\ e.skill = collected[k].skill
                /\ e.type = "blob" /\ SplitSlash(e.rel)[Len(SplitSlash(e.rel))] = "SKILL.md"
                /\ ~ Eligible(e.rel)
          /\ \E p \in ChangedPaths : \E a \in 1..Len(SUPPORTED_AGENTS) :
                p = DestinationOf(SUPPORTED_AGENTS[a].path, collected[k].category,
                                  collected[k].skill, "scripts/run.sh")

\* the rule, with backslashes as slashes, is the path, or its segments (one
\* trailing slash stripped) are the first segments of the path
SegmentMatch(rule, p) ==
    LET r  == BackslashToSlash(rule)
        rs == SplitSlash(StripTrailingSlash(r))
        ps == SplitSlash(p)
    IN  \/ p = r
        \/ /\ Len(rs) < Len(ps)
           /\ \A i \in 1..Len(rs) : rs[i] = ps[i]

\* the rule is a textual prefix of the path that ends inside a segment
EndsInsideSegment(rule, p) ==
    /\ StartsWith(p, BackslashToSlash(rule))
    /\ ~ SegmentMatch(rule, p)

\* C21: when the write stage has ended, the destination of a collected file
\* is as it was at the start of the run if some override rule matches it
\* segment by segment, and holds the fetched content otherwise, also when a
\* rule is a textual prefix of the destination that ends inside a segment
C21_SegmentAlignedOverrides ==
    (pc = "done" /\ "write" \in obs.stages) =>
        \A t \in TargetsOf(Get(config), collected) :
            IF \E i \in 1..Len(Overrides(Get(config))) :
                   SegmentMatch(Overrides(Get(config))[i], t.path)
            THEN FileAt(fsys, t.path) = FileAt(obs.fsAtStart, t.path)
            ELSE FileAt(fsys, t.path) = Some(t.content)

\* a finished run that wrote a file a rule is a textual prefix of, ending
\* inside a segment, and left alone a file under an overridden directory
C21_Witness ==
    /\ pc = "done" /\ "write" \in obs.stages
    /\ \E t \in TargetsOf(Get(config), collected) :
          /\ \E i \in 1..Len(Overrides(Get(config))) :
                EndsInsideSegment(Overrides(Get(config))[i], t.path)
          /\ t.path \in ChangedPaths
          /\ FileAt(fsys, t.path) = Some(t.content)
    /\ \E t \in TargetsOf(Get(config), collected) :
          /\ \E i \in 1..Len(Overrides(Get(config))) :
                /\ SegmentMatch(Overrides(Get(config))[i], t.path)
                /\ BackslashToSlash(Overrides(Get(config))[i]) # t.path
          /\ FileAt(fsys, t.path) # Some(t.content)

\* the third segments of the paths of the listing that lie under
\* skills/{category}/, per category
ThirdNames ==
    [ c \in DOMAIN RemoteDiscovered |->
        { SplitSlash(RemoteTree[i].path)[3] :
            i \in { j \in 1..Len(RemoteTree) :
                      /\ Len(SplitSlash(RemoteTree[j].path)) >= 3
                      /\ SplitSlash(RemoteTree[j].path)[1] = "skills"
                      /\ SplitSlash(RemoteTree[j].path)[2] = c } } ]

\* the names with an entry of the listing inside skills/{category}/{name}/
MemberNames ==
    [ c \in DOMAIN RemoteDiscovered |->
        { n \in ThirdNames[c] :
            \E e \in SkillEntries : e.category = c /\ e.skill = n } ]

\* the directories base/category/name of the names without such an entry
MemberlessDirs ==
    { SUPPORTED_AGENTS[a].path \o "/" \o cn[1] \o "/" \o cn[2] :
        a \in 1..Len(SUPPORTED_AGENTS),
        cn \in UNION { { << c, n >> : n \in ThirdNames[c] \ MemberNames[c] } :
                         c \in DOMAIN RemoteDiscovered } }


\* the skills discovered for a category are the third path segments of the
\* listing under the category, each once
DiscoveredOnce ==
    \A c \in DOMAIN RemoteDiscovered :
        /\ { RemoteDiscovered[c][i].skill : i \in 1..Len(RemoteDiscovered[c]) }
              = ThirdNames[c]
        /\ \A i, j \in 1..Len(RemoteDiscovered[c]) :
              RemoteDiscovered[c][i].skill = RemoteDiscovered[c][j].skill => i = j

\* C22: the skill names discovery finds for a category are the third
\* segments of the paths under skills/{category}/, each once; every file
\* request and every collected skill bears one of these names, and a name
\* with no entry inside it (a file directly under skills/{category}/) is
\* never requested, never collected and gets no file and no directory
C22_SkillDiscovery ==
    /\ DiscoveredOnce
    /\ \A i \in 1..Len(obs.requests) :
          obs.requests[i].skill # "" =>
              obs.requests[i].skill \in MemberNames[obs.requests[i].category]
    /\ \A k \in 1..Len(collected) :
          collected[k].skill \in MemberNames[collected[k].category]
    /\ \A p \in ChangedPaths \cup NewDirs :
          p \notin MemberlessDirs /\ Ancestors(p) \cap MemberlessDirs = {}

\* a finished run that listed a category with a file directly under
\* skills/{category}/, whose name passes the filter, and wrote a skill of
\* that category
C22_Witness ==
    /\ pc = "done" /\ obs.result = "success"
    /\ \E i \in 1..Len(obs.requests) :
          /\ obs.requests[i].kind = "tree" /\ obs.requests[i].outcome = "ok"
          /\ \E n \in ThirdNames[obs.requests[i].category] :
                /\ n \notin MemberNames[obs.requests[i].category]
                /\ Allowed(Get(config).skills[obs.requests[i].category], n)
          /\ \E k \in 1..Len(collected) :
                collected[k].category = obs.requests[i].category
    /\ ChangedPaths # {}

\* the ref of a category after reconciliation: the latest tag when the
\* category was a candidate of an update the user confirmed, else the ref
\* of the configuration as loaded, and main when that has none
EffectiveRef(category) ==
    LET pinnedRef == Get(obs.pinned).skills[category].ref
        confirmed == IF obs.answer = "yes" /\ IsSome(obs.candidates)
                     THEN { u \in Range(Get(obs.candidates)) : u.category = category }
                     ELSE {}
    IN  IF confirmed # {} THEN (CHOOSE u \in confirmed : TRUE).to
        ELSE IF pinnedRef = None \/ pinnedRef = Some("") THEN "main"
        ELSE Get(pinnedRef)

\* C23: the tree listing of a category and every fetch of one of its files
\* are made at the ref of that category after reconciliation, and the
\* content collected for its skills is the content served at that ref
C23_PerCategoryRef ==
    /\ \A i \in 1..Len(obs.requests) :
          obs.requests[i].category # "" =>
              obs.requests[i].ref = EffectiveRef(obs.requests[i].category)
    /\ \A k \in 1..Len(collected) : \A f \in 1..Len(collected[k].files) :
          collected[k].files[f].content
              = RawContent(EffectiveRef(collected[k].category),
                           RawPath(collected[k].category, collected[k].skill,
                                   collected[k].files[f].name))

\* a finished run that fetched files of two categories at different refs,
\* one of them the latest tag of a confirmed update and the other main for
\* a category without a ref
C23_Witness ==
    /\ pc = "done" /\ obs.result = "success" /\ obs.answer = "yes"
    /\ \E i, j \in 1..Len(obs.requests) :
          /\ obs.requests[i].kind = "raw" /\ obs.requests[i].skill # ""
          /\ obs.requests[j].kind = "raw" /\ obs.requests[j].skill # ""
          /\ obs.requests[i].category # obs.requests[j].category
          /\ obs.requests[i].ref # obs.requests[j].ref
          /\ \E u \in Range(Get(obs.candidates)) :
                u.category = obs.requests[i].category /\ u.to = obs.requests[i].ref
          /\ obs.requests[j].ref = "main"
          /\ Get(obs.pinned).skills[obs.requests[j].category].ref = None
    /\ Len(collected) >= 2

\* the default-branch lookup or the fetch of the metadata of this run did
\* not succeed
LookupFailed ==
    \E i \in 1..Len(obs.requests) :
        /\ obs.requests[i].outcome \in {"notok", "throw"}
        /\ \/ obs.requests[i].kind = "repo"
           \/ obs.requests[i].kind = "raw" /\ obs.requests[i].path = "skills/metadata.json"

\* the reconciler has returned, for a locator without the supported form or
\* after a lookup that failed
ReconcileSkipped ==
    /\ IsSome(config) /\ IsSome(Get(config).registry)
    /\ "reconcile" \in obs.stages
    /\ pc \notin {"registry", "repo", "meta"}
    /\ ~ SupportedForms[Get(Get(config).registry)] \/ LookupFailed

\* C24: when reconciliation is skipped the configuration is the one that
\* was loaded, no candidate is computed, no confirmation is asked, .skillsrc
\* is as it was, every request of the assembler is made at the ref of the
\* loaded configuration, and the run goes on to a successful end
C24_SkippedReconciliation ==
    ReconcileSkipped =>
        /\ config = obs.pinned
        /\ obs.candidates = None
        /\ obs.prompts = 0
        /\ ~ obs.persisted
        /\ cfgFile = obs.fileAtStart
        /\ \A i \in 1..Len(obs.requests) :
              obs.requests[i].category # "" =>
                  obs.requests[i].ref
                      = OrElseStr(Get(obs.pinned).skills[obs.requests[i].category].ref,
                                  "main")
        /\ pc = "done" => (obs.result = "success" /\ "assemble" \in obs.stages)

\* a finished run whose metadata fetch failed while the metadata, had it
\* arrived, would have called for an update: the skills were fetched at
\* the pinned ref
C24_Witness ==
    /\ ReconcileSkipped /\ pc = "done" /\ LookupFailed
    /\ \E m \in MetaBodies(defaultBranch) :
          Len(ComputeUpdates(Get(obs.pinned), m)) > 0
    /\ \E i \in 1..Len(obs.requests) :
          obs.requests[i].kind = "tree" /\ obs.requests[i].outcome = "ok"
    /\ Len(collected) > 0

\* the categories of the configuration whose enabled flag is false
DisabledSet(cfg) == { c \in DOMAIN cfg.skills : ~ cfg.skills[c].enabled }

\* the path lies in the directory of the category under the base directory
\* of some tool
InCategoryDir(p, category) ==
    \E a \in 1..Len(SUPPORTED_AGENTS) :
        LET d == SUPPORTED_AGENTS[a].path \o "/" \o category
        IN  p = d \/ d \in Ancestors(p)

\* C25: a category whose enabled flag is false is no update candidate, is
\* named by no request, has no skill collected, and no file or directory of
\* its own is created or changed
C25_DisabledInert ==
    IsSome(config) =>
        \A c \in DisabledSet(Get(config)) :
            /\ IsSome(obs.candidates) =>
                  \A u \in Range(Get(obs.candidates)) : u.category # c
            /\ \A i \in 1..Len(obs.requests) : obs.requests[i].category # c
            /\ \A k \in 1..Len(collected) : collected[k].category # c
            /\ \A p \in ChangedPaths \cup NewDirs : ~ InCategoryDir(p, c)

\* a finished run with a disabled category that has a ref other than the
\* latest tag of the metadata and skills in the listing, while another
\* category was updated, collected and written
C25_Witness ==
    /\ pc = "done" /\ obs.result = "success"
    /\ IsSome(obs.candidates) /\ Len(Get(obs.candidates)) > 0
    /\ IsSome(remote.meta)
    /\ \E c \in DisabledSet(Get(config)) :
          /\ IsSome(Get(remote.meta).categories)
          /\ c \in DOMAIN Get(Get(remote.meta).categories)
          /\ HasLatestTag(Some(Get(Get(remote.meta).categories)[c]))
          /\ LatestTag(Some(Get(Get(remote.meta).categories)[c]))
                # CurrentRef(Get(config).skills[c])
          /\ MemberNames[c] # {}
    /\ Len(collected) > 0
    /\ ChangedPaths # {}

(***************************************************************************)
(* C27: the repository of the reconciler and of the assembler.             *)
(***************************************************************************)
\* the registry of the configuration of the run, "" when there is none
RegistryOfRun ==
    IF IsSome(config) /\ IsSome(Get(config).registry)
    THEN Get(Get(config).registry) ELSE ""

\* the assembler is issuing its requests after the reconciler has issued its
\* own for the same registry locator
BothResolved ==
    /\ pc \in {"tree", "fetch"}
    /\ RegistryOfRun \in RegistryValues
    /\ \E i \in 1..Len(obs.requests) : obs.requests[i].kind = "repo"

\* C27: for a registry locator that both the reconciler and the assembler
\* accept, the owner and repository the assembler fetches the tree and the
\* files from are the owner and repository the reconciler asked for the
\* default branch and the metadata
C27_SameRepository ==
    BothResolved => locator = Get(UpdateMatches[RegistryOfRun])

(***************************************************************************)
(* C28: the configuration in memory and the file after checkForUpdates.    *)
(***************************************************************************)
\* the ref of every category of a configuration
RefsOf(cfg) == [ c \in DOMAIN cfg.skills |-> cfg.skills[c].ref ]

\* C28: when checkForUpdates has returned, the category refs of the
\* configuration the assembler is about to use are the refs stored in
\* .skillsrc, also when writing the file has failed
C28_MemoryDiskAgreement ==
    (pc = "assemble" /\ IsSome(config)) =>
        RefsOf(Get(config)) = RefsOf(YamlLoad(cfgFile))

(***************************************************************************)
(* C29: a run after a confirmed and persisted update.                      *)
(***************************************************************************)
\* the previous run ended after the user had confirmed its candidates and
\* .skillsrc had been written
UpdatedLastRun ==
    /\ IsSome(prev)
    /\ Get(prev).obs.answer = "yes"
    /\ Get(prev).obs.persisted

\* C29: in the sync run that follows a run whose candidates were confirmed
\* and persisted, with the registry answering as before, the candidates
\* computed are empty and no confirmation is asked
C29_Converges ==
    UpdatedLastRun =>
        /\ obs.prompts = 0
        /\ IsSome(obs.candidates) => Get(obs.candidates) = << >>

\* the run after an update of two categories has compared the new
\* configuration with the metadata
C29_Witness ==
    /\ UpdatedLastRun
    /\ Len(Get(Get(prev).obs.candidates)) = 2
    /\ obs.candidates = Some(<< >>)
    /\ pc = "done"

(***************************************************************************)
(* C26: init and an existing .skillsrc.                                    *)
(***************************************************************************)
\* the current run is a run of init
InitRun == "init" \in obs.stages

\* C26: when .skillsrc exists and the user declines to overwrite it, init
\* ends with the file as it was and with that one question asked; init
\* writes the file only when the user has confirmed or no file existed
C26_OverwriteGating ==
    InitRun =>
        /\ (PathExists(obs.fileAtStart) /\ obs.answer = "no") =>
                /\ cfgFile = obs.fileAtStart
                /\ obs.prompts = 1
                /\ ~ obs.persisted
                /\ pc = "done"
        /\ (obs.persisted \/ cfgFile # obs.fileAtStart) =>
                (obs.answer = "yes" \/ ~ PathExists(obs.fileAtStart))

\* init has ended after the user declined to overwrite an existing file
C26_Witness ==
    /\ InitRun
    /\ PathExists(obs.fileAtStart)
    /\ obs.answer = "no"
    /\ pc = "done"

(***************************************************************************)
(* C30: the refs init writes and the sync run after it.                    *)
(***************************************************************************)
\* the tag sync compares the ref of a category with, None when the metadata
\* lacks the category, its version or its tag prefix
CurrentTag(remoteMeta, c) ==
    IF HasLatestTag(RemoteCategory(remoteMeta, c))
    THEN Some(LatestTag(RemoteCategory(remoteMeta, c)))
    ELSE None

\* the previous run was a run of init that read the metadata and wrote
\* .skillsrc
AfterInit ==
    /\ IsSome(prev)
    /\ "init" \in Get(prev).obs.stages
    /\ Get(prev).obs.persisted
    /\ IsSome(remote.initMeta)

\* C30: when init has read the metadata, every category of the file it
\* writes is enabled and has the ref tag_prefix + version when the metadata
\* has both for the category and no ref otherwise; the sync run that
\* follows and reads the same metadata computes no update candidate and
\* asks no confirmation
C30_InitPinsCurrent ==
    /\ (InitRun /\ obs.persisted /\ IsSome(remote.initMeta)) =>
            \A c \in DOMAIN YamlLoad(cfgFile).skills :
                /\ YamlLoad(cfgFile).skills[c].enabled
                /\ YamlLoad(cfgFile).skills[c].ref = CurrentTag(Get(remote.initMeta), c)
    /\ (AfterInit /\ IsSome(obs.candidates) /\ remote.meta = remote.initMeta) =>
            /\ Get(obs.candidates) = << >>
            /\ obs.prompts = 0

\* the sync run after init has compared a configuration holding a pinned
\* category with the metadata init has read
C30_Witness ==
    /\ AfterInit
    /\ remote.meta = remote.initMeta
    /\ obs.candidates = Some(<< >>)
    /\ \E c \in DOMAIN YamlLoad(cfgFile).skills :
          YamlLoad(cfgFile).skills[c].ref = Some("v1.0.0")
    /\ pc = "done"

====
